---- MODULE Spec2Model ----
(***************************************************************************)
(* The synchronization core of ngx-quill: the editable binder              *)
(* (QuillEditorBase), its two-way value binding, its debounced event       *)
(* pipeline and its lifecycle, against an abstract rich-text engine that   *)
(* offers setText / setContents / getText / getContents / getSemanticHTML, *)
(* enable / disable and on / off.                                          *)
(***************************************************************************)
EXTENDS Integers, Sequences, FiniteSets, TLC

VARIABLES
    opts,               \* inputs read on use: format, filterNull, compareValues, trackChanges, observed outputs
    config,             \* QuillService.config (service-level defaults)
    readOnly,           \* the readOnly input signal
    debounceTime,       \* the debounceTime input signal: <<>> is undefined, <<n>> the number n
    styles,             \* the styles input signal: a set of style keys, NoStyles is null
    classes,            \* the classes input signal: a class list string, NoClasses is undefined
    rendered,           \* the afterNextRender callback has run
    destroyed,          \* the DestroyRef has fired
    quillSubscription,  \* _quillSubscription: "null", "pending" (subscribed, nothing emitted), "done"
    quillEditor,        \* _quillEditor: 0 when unset, else the number of the instance held
    constructed,        \* how many engine instances this binder has constructed
    content,            \* _content
    disabled,           \* _disabled
    eventsSubscription, \* _eventsSubscription: [live, dt] (dt: the interval its pipes were built with)
    previousStyles,     \* _previousStyles
    previousClasses,    \* _previousClasses
    quill,              \* the engine instance: [ops, enabled, on, history]
    host,               \* the DOM: [disabled (host attribute), styles and classes (set on the editor element)]
    form,               \* the hosting form control: [onChange, onTouched, value, dirty, touched]
    textTimer,          \* debounce stage of the text-change stream: [armed, left, src]
    editorTimer,        \* debounce stage of the editor-change stream: [armed, left, ev, src]
    raf,                \* the deferred creation callback is scheduled
    task,               \* pending-task token: "none", "held", "released"
    lastAct,            \* the operation that produced this state
    trace,              \* what that operation did: engine calls, DOM mutations, callbacks, emissions
    burst,              \* native text-change events received by the debounce stage and not yet delivered
    quiet               \* ticks elapsed since the last native text-change event

vars == <<opts, config, readOnly, debounceTime, styles, classes, rendered, destroyed,
          quillSubscription, quillEditor, constructed, content, disabled,
          eventsSubscription, previousStyles, previousClasses, quill, host, form, textTimer,
          editorTimer, raf, task, lastAct, trace, burst, quiet>>

(***************************************************************************)
(* Bounds of the model.                                                    *)
(***************************************************************************)
MaxDebounce == 2    \* largest debounce interval, in ticks
MaxBurst == 3       \* native events counted in one debounce window
MaxInstances == 2   \* engine constructions explored (the code has no such limit)

(***************************************************************************)
(* Values crossing the binding: JavaScript values, tagged by type.         *)
(***************************************************************************)
Ins(s) == [insert |-> s, embed |-> FALSE]

Null == [t |-> "null", s |-> "", ops |-> <<>>]
Undefined == [t |-> "undefined", s |-> "", ops |-> <<>>]
Str(x) == [t |-> "string", s |-> x, ops |-> <<>>]
Arr(o) == [t |-> "array", s |-> "", ops |-> o]
Delta(o) == [t |-> "delta", s |-> "", ops |-> o]
Bool(b) == [t |-> "boolean", s |-> IF b THEN "true" ELSE "false", ops |-> <<>>]
Num(n) == [t |-> "number", s |-> ToString(n), ops |-> <<>>]

\* String.prototype.trim(): the text without its leading and trailing white space
Trim(s) ==
    CHOOSE c \in {"", "a", "b", "{a", "abcd", "abcdef"} :
        \E p, q \in {"", " ", "\n", " \n"} : s = p \o c \o q

\* JavaScript truthiness: null, undefined and '' are falsy, objects are truthy.
Truthy(v) == v.t \in {"array", "delta"} \/ (v.t = "string" /\ v.s # "")

\* The single-line texts the model edits with ("{a" is not valid JSON).
Lines == {"", "a", "b", "{a", " ", "abcd", " abcd ", "abcdef"}

EndsNL(s) == \E p \in Lines : s = p \o "\n"
Chomp(s) == IF EndsNL(s) THEN CHOOSE p \in Lines : s = p \o "\n" ELSE s

(***************************************************************************)
(* The engine (third-party, consumed through its public contract).         *)
(***************************************************************************)
EmptyOps == <<Ins("\n")>>

RECURSIVE TextOf(_)
TextOf(ops) ==
    IF ops = <<>> THEN ""
    ELSE (IF Head(ops).embed THEN "" ELSE Head(ops).insert) \o TextOf(Tail(ops))

\* quill.getText()
getText(q) == TextOf(q.ops)

\* quill.getContents()
getContents(q) == Delta(q.ops)

\* A document always ends with a newline: the engine appends the missing one.
Normalize(ops) ==
    IF ops = <<>> THEN EmptyOps
    ELSE LET n == Len(ops)
             l == ops[n]
         IN IF l.embed THEN Append(ops, Ins("\n"))
            ELSE IF EndsNL(l.insert) THEN ops
            ELSE [ops EXCEPT ![n] = Ins(l.insert \o "\n")]

\* the document quill.setText(text) leaves
TextDoc(s) == Normalize(IF s = "" THEN <<>> ELSE <<Ins(s)>>)

\* the document quill.setContents(value) leaves
ContentsDoc(v) == Normalize(IF v.t \in {"array", "delta"} THEN v.ops ELSE <<>>)

\* quill.getSemanticHTML(): one paragraph per (single-line) document
Html(line) == "<p>" \o line \o "</p>"
getSemanticHTML(q) == Html(Chomp(getText(q)))

\* html that carries a script next to the paragraph 'a'
UnsafeHtml == "<p>a</p><script>"

\* quill.clipboard.convert({html}): the paragraph's text; what is not content
\* (a script) is left out
convert(v) ==
    IF ~Truthy(v) THEN Delta(<<>>)
    ELSE IF v.s = UnsafeHtml THEN Delta(<<Ins("a")>>)
    ELSE IF \E l \in Lines : v.s = Html(l)
         THEN LET l == CHOOSE l \in Lines : v.s = Html(l)
              IN Delta(IF l = "" THEN <<>> ELSE <<Ins(l)>>)
         ELSE Delta(<<Ins(v.s)>>)

(***************************************************************************)
(* JSON.stringify / JSON.parse on the values above.                        *)
(***************************************************************************)
Esc(s) == IF EndsNL(s) THEN Chomp(s) \o "\\n" ELSE s

RECURSIVE OpsJson(_)
OpsJson(ops) ==
    IF ops = <<>> THEN ""
    ELSE "{\"insert\":\"" \o Esc(Head(ops).insert) \o "\"}"
         \o (IF Len(ops) > 1 THEN "," ELSE "") \o OpsJson(Tail(ops))

Stringify(v) ==
    CASE v.t = "null" -> "null"
      [] v.t = "undefined" -> "undefined"
      [] v.t = "string" -> "\"" \o v.s \o "\""
      [] v.t = "array" -> "[" \o OpsJson(v.ops) \o "]"
      [] v.t = "delta" -> "{\"ops\":[" \o OpsJson(v.ops) \o "]}"

\* The structured values whose JSON text the model can be handed.
JsonValues ==
    {Arr(<<Ins(l)>>) : l \in Lines \ {""}} \cup
    {Delta(<<Ins(l \o "\n")>>) : l \in Lines} \cup {Null}

CanParse(v) ==
    \/ v.t = "null"
    \/ v.t = "string" /\ \E j \in JsonValues : Stringify(j) = v.s

Parse(v) ==
    IF v.t = "null" THEN Null
    ELSE CHOOSE j \in JsonValues : Stringify(j) = v.s

(***************************************************************************)
(* Inputs and configuration.                                               *)
(***************************************************************************)
Formats == {"text", "object", "html", "json"}
Bools == {"true", "false"}               \* a boolean input that may also be "undefined"
NoStyles == {"null"}                     \* the styles input when it is null
NoClasses == "undefined"                 \* the classes input when it is left unset

\* a string input is truthy unless ''
Present(c) == c # NoClasses /\ c # ""

\* QuillEditorBase.normalizeClassNames(classes): trim, split at ' ', drop the blanks
normalizeClassNames(c) ==
    CASE c = "a b" -> <<"a", "b">>
      [] c = " b  c " -> <<"b", "c">>
      [] OTHER -> <<>>

ClassSet(c) == {normalizeClassNames(c)[i] : i \in DOMAIN normalizeClassNames(c)}

\* outputFromObservable: the Subject is observed when the template binds the output
Observed(o) == o \in opts.observed

\* helpers.getFormat: component-level override, else service-level default, else 'html'
getFormat(format, configFormat) ==
    IF format # "undefined" THEN format
    ELSE IF configFormat # "undefined" THEN configFormat
    ELSE "html"

Format == getFormat(opts.format, config.format)

\* (a trackChanges that reads the component input only)
TrackChanges_inputOnly == opts.trackChanges

\* this.trackChanges() || this._service.config.trackChanges
TrackChanges ==
    IF opts.trackChanges # "undefined" THEN opts.trackChanges ELSE config.trackChanges

\* (a flag that reads the component input only)
Sanitize_inputOnly == opts.sanitize = "true"

\* [true, false].includes(this.sanitize()) ? this.sanitize() : (config.sanitize || false)
Sanitize ==
    IF opts.sanitize \in Bools THEN opts.sanitize = "true" ELSE config.sanitize = "true"

\* DomSanitizer.sanitize(SecurityContext.HTML, value): drops what is unsafe
Sanitized(v) == IF v.t = "string" /\ v.s = UnsafeHtml THEN Str(Html("a")) ELSE v

(***************************************************************************)
(* Format adapter.                                                         *)
(***************************************************************************)
isEmptyValue(html) ==
    html = "<p></p>" \/ html = "<div></div>" \/ html = "<p><br></p>" \/ html = "<div><br></div>"

\* (a decode that hands the empty forms on as they are)
HtmlModelValue_noSentinel(html) == Str(html)

\* if (this._isEmptyValue(html)) { html = this.defaultEmptyValue() }
HtmlModelValue(html) ==
    IF isEmptyValue(html) THEN opts.defaultEmptyValue ELSE Str(html)

\* the html a change payload and the html format carry
HtmlValue(q) == HtmlModelValue(getSemanticHTML(q))

\* (a decode that answers with html under every format)
valueGetter_alwaysHtml(q) == HtmlValue(q)

valueGetter(q) ==
    CASE Format = "text" -> Str(getText(q))
      [] Format = "object" -> getContents(q)
      [] Format = "json" -> Str(Stringify(getContents(q)))
      [] OTHER -> HtmlValue(q)

\* (a json branch that lets the parse error through: nothing to write)
JsonValue_noFallback(value) ==
    IF CanParse(value) THEN Parse(value) ELSE Undefined

\* try { return JSON.parse(value) } catch { return [{ insert: value }] }
JsonValue(value) ==
    IF CanParse(value) THEN Parse(value) ELSE Arr(<<Ins(value.s)>>)

valueSetter(q, value) ==
    IF Format = "html"
    THEN convert(IF Sanitize THEN Sanitized(value) ELSE value)
    ELSE IF Format = "json"
    THEN JsonValue(value)
    ELSE value

(***************************************************************************)
(* What one operation does, step by step.  An operation threads a record   *)
(* w through the calls it makes; w.trace collects the engine calls, DOM    *)
(* mutations, callbacks and emissions in the order they happen.            *)
(***************************************************************************)
Ev(k, v, src) == [k |-> k, v |-> v, src |-> src, n |-> 0]
EvN(k, n) == [k |-> k, v |-> Undefined, src |-> "", n |-> n]
E(k) == Ev(k, Undefined, "")
Log(w, e) == [w EXCEPT !.trace = Append(w.trace, e)]

World ==
    [quill |-> quill, form |-> form, host |-> host, textTimer |-> textTimer,
     editorTimer |-> editorTimer, sub |-> eventsSubscription, burst |-> burst,
     quiet |-> quiet, trace |-> <<>>]

Commit(w) ==
    /\ quill' = w.quill
    /\ form' = w.form
    /\ host' = w.host
    /\ textTimer' = w.textTimer
    /\ editorTimer' = w.editorTimer
    /\ eventsSubscription' = w.sub
    /\ burst' = w.burst
    /\ quiet' = w.quiet
    /\ trace' = w.trace

NoTextTimer == [armed |-> FALSE, left |-> 0, src |-> ""]
NoEditorTimer == [armed |-> FALSE, left |-> 0, ev |-> "", src |-> ""]
NoSubscription == [live |-> FALSE, dt |-> <<>>]
NoListeners == [selection |-> 0, text |-> 0, editor |-> 0]

Min(a, b) == IF a < b THEN a ELSE b

\* (a gate that lets every source through)
Gate_anySource(src) == TRUE

\* source === 'user' || trackChanges && trackChanges === 'all'
Gate(src) == src = "user" \/ TrackChanges = "all"

\* (a handler that holds content-changed back with the model-change gate)
textChangeHandler_gated(w0, src) ==
    LET w == Log(w0, Ev("textChangeHandler", Undefined, src))
        shouldTriggerOnModelChange == Gate(src) /\ w.form.onChange
    IN IF ~shouldTriggerOnModelChange THEN w
       ELSE LET w1 == Log([w EXCEPT !.form.value = valueGetter(w.quill),
                                    !.form.dirty = TRUE],
                          Ev("onModelChange", valueGetter(w.quill), src))
            IN IF Observed("onContentChanged")
               THEN Log(w1, Ev("onContentChanged", getContents(w.quill), src))
               ELSE w1

\* textChangeHandler(delta, oldDelta, source)
textChangeHandler(w0, src) ==
    LET w == Log(w0, Ev("textChangeHandler", Undefined, src))
        shouldTriggerOnModelChange == Gate(src) /\ w.form.onChange
        w1 == IF shouldTriggerOnModelChange
              THEN Log([w EXCEPT !.form.value = valueGetter(w.quill), !.form.dirty = TRUE],
                       Ev("onModelChange", valueGetter(w.quill), src))
              ELSE w
    IN IF ~Observed("onContentChanged") /\ ~shouldTriggerOnModelChange THEN w
       ELSE IF Observed("onContentChanged")
            THEN Log(w1, Ev("onContentChanged", getContents(w.quill), src))
            ELSE w1

\* (a handler that re-emits user changes only)
editorChangeHandler_userOnly(w0, ev, src) ==
    LET w == Log(w0, Ev("editorChangeHandler", Str(ev), src)) IN
    IF ~Observed("onEditorChanged") \/ src # "user" THEN w
    ELSE IF ev = "text-change"
         THEN Log(w, Ev("onEditorChanged:text-change", getContents(w.quill), src))
         ELSE Log(w, Ev("onEditorChanged:selection-change",
                        IF w.quill.range THEN Str("range") ELSE Null, src))

\* editorChangeHandler(event, current, old, source)
editorChangeHandler(w0, ev, src) ==
    LET w == Log(w0, Ev("editorChangeHandler", Str(ev), src)) IN
    IF ~Observed("onEditorChanged") THEN w
    ELSE IF ev = "text-change"
         THEN Log(w, Ev("onEditorChanged:text-change", getContents(w.quill), src))
         ELSE Log(w, Ev("onEditorChanged:selection-change",
                        IF w.quill.range THEN Str("range") ELSE Null, src))

\* a range as a value: present, or null; in a record, n tells whether oldRange is present
RangeValue(range) == IF range THEN Str("range") ELSE Null
RangeEv(k, range, oldRange, src) ==
    [Ev(k, RangeValue(range), src) EXCEPT !.n = IF oldRange THEN 1 ELSE 0]

\* (a handler that reports focus whenever a range is set)
selectionChangeHandler_focusOnAnyRange(w0, range, oldRange, src) ==
    LET w == Log(w0, RangeEv("selectionChangeHandler", range, oldRange, src))
        shouldTriggerOnModelTouched == ~range /\ w.form.onTouched /\ Gate(src)
        w1 == IF ~range /\ Observed("onBlur") THEN Log(w, Ev("onBlur", Undefined, src))
              ELSE IF range /\ Observed("onFocus")
                   THEN Log(w, Ev("onFocus", Undefined, src))
                   ELSE w
        w2 == IF Observed("onSelectionChanged")
              THEN Log(w1, RangeEv("onSelectionChanged", range, oldRange, src))
              ELSE w1
    IN IF /\ ~Observed("onBlur") /\ ~Observed("onFocus")
          /\ ~Observed("onSelectionChanged") /\ ~shouldTriggerOnModelTouched
       THEN w
       ELSE IF shouldTriggerOnModelTouched
            THEN Log([w2 EXCEPT !.form.touched = TRUE], Ev("onModelTouched", Undefined, src))
            ELSE w2

\* selectionChangeHandler(range, oldRange, source); a range is present (TRUE) or null
selectionChangeHandler(w0, range, oldRange, src) ==
    LET w == Log(w0, RangeEv("selectionChangeHandler", range, oldRange, src))
        shouldTriggerOnModelTouched == ~range /\ w.form.onTouched /\ Gate(src)
        w1 == IF ~range /\ Observed("onBlur") THEN Log(w, Ev("onBlur", Undefined, src))
              ELSE IF range /\ ~oldRange /\ Observed("onFocus")
                   THEN Log(w, Ev("onFocus", Undefined, src))
                   ELSE w
        w2 == IF Observed("onSelectionChanged")
              THEN Log(w1, RangeEv("onSelectionChanged", range, oldRange, src))
              ELSE w1
    IN IF /\ ~Observed("onBlur") /\ ~Observed("onFocus")
          /\ ~Observed("onSelectionChanged") /\ ~shouldTriggerOnModelTouched
       THEN w
       ELSE IF shouldTriggerOnModelTouched
            THEN Log([w2 EXCEPT !.form.touched = TRUE], Ev("onModelTouched", Undefined, src))
            ELSE w2

\* (a stage that keeps a running timer instead of restarting it)
TextStream_timerNotRestarted(w, src) ==
    IF w.sub.dt = <<>> THEN textChangeHandler(w, src)
    ELSE [w EXCEPT !.textTimer = [armed |-> TRUE,
                                  left |-> IF @.armed THEN @.left ELSE w.sub.dt[1],
                                  src |-> src],
                   !.burst = Min(w.burst + 1, MaxBurst),
                   !.quiet = 0]

\* The text-change stream of the live subscription: straight to the handler, or
\* through debounceTime(dt), which keeps the last event and restarts its timer.
TextStream(w, src) ==
    IF w.sub.dt = <<>> THEN textChangeHandler(w, src)
    ELSE [w EXCEPT !.textTimer = [armed |-> TRUE, left |-> w.sub.dt[1], src |-> src],
                   !.burst = Min(w.burst + 1, MaxBurst),
                   !.quiet = 0]

\* The editor-change stream of the live subscription.
EditorStream(w, ev, src) ==
    IF w.sub.dt = <<>> THEN editorChangeHandler(w, ev, src)
    ELSE [w EXCEPT !.editorTimer = [armed |-> TRUE, left |-> w.sub.dt[1], ev |-> ev, src |-> src]]

\* The engine reports a content change: editor-change first (also when silent),
\* then text-change unless the source is silent.
EmitTextChange(w, src) ==
    LET w1 == IF w.quill.on.editor > 0 THEN EditorStream(w, "text-change", src) ELSE w
    IN IF src # "silent" /\ w1.quill.on.text > 0 THEN TextStream(w1, src) ELSE w1

\* The engine reports a selection change.
EmitSelectionChange(w, range, oldRange, src) ==
    LET w1 == IF w.quill.on.editor > 0 THEN EditorStream(w, "selection-change", src) ELSE w
    IN IF src # "silent" /\ w1.quill.on.selection > 0
       THEN selectionChangeHandler(w1, range, oldRange, src) ELSE w1

\* this._quillEditor.setText(text, source)
setText(w, v, src) ==
    EmitTextChange(Log([w EXCEPT !.quill.ops = TextDoc(v.s),
                                !.quill.history = IF src = "silent" THEN @ ELSE 1],
                       Ev("setText", v, src)), src)

\* this._quillEditor.setContents(value, source)
setContents(w, v, src) ==
    EmitTextChange(Log([w EXCEPT !.quill.ops = ContentsDoc(v),
                                !.quill.history = IF src = "silent" THEN @ ELSE 1],
                       Ev("setContents", v, src)), src)

(***************************************************************************)
(* Methods of QuillEditorBase.                                             *)
(***************************************************************************)
Dec(n) == IF n > 0 THEN n - 1 ELSE 0

\* what unsubscribing a debounce stage cancels
Cancelled(w) ==
    (IF w.textTimer.armed THEN <<E("cancel:text-change")>> ELSE <<>>)
    \o (IF w.editorTimer.armed THEN <<E("cancel:editor-change")>> ELSE <<>>)

\* (a teardown that detaches the listeners and leaves the debounce timers running)
Dispose_keepsTimers(w) ==
    IF ~w.sub.live THEN [w EXCEPT !.sub = NoSubscription]
    ELSE [w EXCEPT !.sub = NoSubscription,
                   !.quill.on = [selection |-> Dec(@.selection), text |-> Dec(@.text),
                                 editor |-> Dec(@.editor)],
                   !.trace = @ \o <<E("off:selection-change"), E("off:text-change"),
                                    E("off:editor-change")>>]

\* _dispose(): unsubscribing runs the three fromEvent teardowns (off) and cancels
\* what the debounce stages still hold.
Dispose(w) ==
    IF ~w.sub.live THEN [w EXCEPT !.sub = NoSubscription]
    ELSE [w EXCEPT !.sub = NoSubscription,
                   !.quill.on = [selection |-> Dec(@.selection), text |-> Dec(@.text),
                                 editor |-> Dec(@.editor)],
                   !.textTimer = NoTextTimer,
                   !.editorTimer = NoEditorTimer,
                   !.burst = 0,
                   !.trace = @ \o <<E("off:selection-change"), E("off:text-change"),
                                    E("off:editor-change")>> \o Cancelled(w)]

\* (a rebuild that does not dispose of the previous set first)
addQuillEventListeners_noDispose(w, dt) ==
    [w EXCEPT !.sub = [live |-> TRUE, dt |-> dt],
              !.quill.on = [selection |-> @.selection + 1, text |-> @.text + 1,
                            editor |-> @.editor + 1],
              !.trace = @ \o <<E("on:selection-change"), E("on:text-change"),
                               E("on:editor-change")>>]

\* _addQuillEventListeners(), reading the debounceTime input dt
addQuillEventListeners(w, dt) ==
    LET w1 == Dispose(w)
    IN [w1 EXCEPT !.sub = [live |-> TRUE, dt |-> dt],
                  !.quill.on = [selection |-> @.selection + 1, text |-> @.text + 1,
                                editor |-> @.editor + 1],
                  !.trace = @ \o <<E("on:selection-change"), E("on:text-change"),
                                   E("on:editor-change")>>]

\* (a setDisabledState that leaves the host attribute in place when enabling)
setDisabledState_keepsAttribute(w, isDisabled, ro) ==
    IF isDisabled
    THEN Log(Log([w EXCEPT !.quill.enabled = FALSE, !.host.disabled = TRUE],
                 E("disable")), E("setAttribute:disabled"))
    ELSE IF ro # "true"
         THEN Log([w EXCEPT !.quill.enabled = TRUE], E("enable"))
         ELSE w

\* the engine part of setDisabledState(isDisabled), run when an instance is held
setDisabledState(w, isDisabled, ro) ==
    IF isDisabled
    THEN Log(Log([w EXCEPT !.quill.enabled = FALSE, !.host.disabled = TRUE],
                 E("disable")), E("setAttribute:disabled"))
    ELSE LET w1 == IF ro # "true"
                   THEN Log([w EXCEPT !.quill.enabled = TRUE], E("enable"))
                   ELSE w
         IN Log([w1 EXCEPT !.host.disabled = FALSE], E("removeAttribute:disabled"))

\* the sanitizer call valueSetter makes under format html
Sanitizing(w, value) ==
    IF Format = "html" /\ Sanitize THEN Log(w, Ev("sanitize", value, "")) ELSE w

\* QuillViewComponent.valueSetter(quillEditor, value)
QuillView_valueSetter(w, value) ==
    IF Format = "text" THEN setText(w, value, "api")
    ELSE setContents(Sanitizing(w, value),
                     CASE Format = "html"
                            -> convert(IF Sanitize THEN Sanitized(value) ELSE value)
                       [] Format = "json" -> JsonValue(value)
                       [] OTHER -> value,
                     "api")

\* (a comparison that never finds the values equal)
SameContents_never(q, newValue) == FALSE

\* JSON.stringify(currentEditorValue) === JSON.stringify(newValue)
SameContents(q, newValue) == Stringify(getContents(q)) = Stringify(newValue)

\* (a write path without the final setText(''))
writeToEngine_noClear(w, currentValue) ==
    IF Truthy(currentValue)
    THEN (IF Format = "text" THEN setText(w, currentValue, "api")
          ELSE setContents(w, valueSetter(w.quill, currentValue), "api"))
    ELSE w

\* the engine part of writeValue(currentValue), run when an instance is held
writeToEngine(w, currentValue) ==
    LET newValue == valueSetter(w.quill, currentValue)
        ws == Sanitizing(w, currentValue)
    IN IF opts.compareValues /\ SameContents(w.quill, newValue)
       THEN ws
       ELSE IF Truthy(currentValue)
            THEN (IF Format = "text" THEN setText(ws, currentValue, "api")
                  ELSE setContents(ws, newValue, "api"))
            ELSE setText(ws, Str(""), "api")

\* the write of the buffered value when the instance is created
flushContent(w) ==
    IF ~Truthy(content) THEN w
    ELSE Log([(IF Format = "text" THEN setText(w, content, "silent")
               ELSE setContents(Sanitizing(w, content),
                                valueSetter(w.quill, content), "silent"))
              EXCEPT !.quill.history = 0], E("history.clear"))

\* the effective text length validate() works with
\* (a length that keeps the engine's trailing newline)
textLength_raw(q) ==
    LET text == getText(q)
    IN IF opts.trimOnValidation THEN Len(Trim(text))
       ELSE IF Len(text) = 1 /\ Len(Trim(text)) = 0 THEN 0 ELSE Len(text)

\* trimOnValidation() ? text.trim().length
\*                    : (text.length === 1 && text.trim().length === 0 ? 0 : text.length - 1)
textLength(q) ==
    LET text == getText(q)
    IN IF opts.trimOnValidation THEN Len(Trim(text))
       ELSE IF Len(text) = 1 /\ Len(Trim(text)) = 0 THEN 0 ELSE Len(text) - 1

\* (any single operation counts as empty)
onlyEmptyOperation_anyInsert(q) == Len(q.ops) = 1

\* deltaOperations.length === 1 && ['\n', ''].includes(deltaOperations[0].insert?.toString())
onlyEmptyOperation(q) ==
    Len(q.ops) = 1 /\ ~q.ops[1].embed /\ q.ops[1].insert \in {"\n", ""}

\* (a validate whose minLength check also fails empty content)
validate_minOnEmpty(w) ==
    LET n == textLength(w.quill)
        tooShort == opts.minLength # 0 /\ n < opts.minLength
        tooLong == opts.maxLength # 0 /\ n > opts.maxLength
        empty == opts.required /\ n = 0 /\ onlyEmptyOperation(w.quill)
        w1 == Log(w, EvN("textLength", n))
        w2 == IF tooShort
              THEN Log(w1, [Ev("minLengthError", Num(opts.minLength), "") EXCEPT !.n = n])
              ELSE w1
        w3 == IF tooLong
              THEN Log(w2, [Ev("maxLengthError", Num(opts.maxLength), "") EXCEPT !.n = n])
              ELSE w2
        w4 == IF empty THEN Log(w3, Ev("requiredError", Bool(TRUE), "")) ELSE w3
    IN Log(w4, Ev("return", IF tooShort \/ tooLong \/ empty THEN Str("err") ELSE Null, ""))

\* the part of validate() that runs when an instance is held
validate(w) ==
    LET n == textLength(w.quill)
        tooShort == opts.minLength # 0 /\ n # 0 /\ n < opts.minLength
        tooLong == opts.maxLength # 0 /\ n > opts.maxLength
        empty == opts.required /\ n = 0 /\ onlyEmptyOperation(w.quill)
        w1 == Log(w, EvN("textLength", n))
        w2 == IF tooShort
              THEN Log(w1, [Ev("minLengthError", Num(opts.minLength), "") EXCEPT !.n = n])
              ELSE w1
        w3 == IF tooLong
              THEN Log(w2, [Ev("maxLengthError", Num(opts.maxLength), "") EXCEPT !.n = n])
              ELSE w2
        w4 == IF empty THEN Log(w3, Ev("requiredError", Bool(TRUE), "")) ELSE w3
    IN Log(w4, Ev("return", IF tooShort \/ tooLong \/ empty THEN Str("err") ELSE Null, ""))

\* the readOnly option the instance is created with
ResolvedReadOnly ==
    IF readOnly = "undefined"
    THEN (IF config.readOnly # "undefined" THEN config.readOnly = "true" ELSE FALSE)
    ELSE readOnly = "true"

\* the option inputs as the component declares them: readOnly and debug default to
\* false, the others to undefined; bound names the ones of readOnly and debug that
\* the template binds
DefaultInputs ==
    [theme |-> "undefined", placeholder |-> "undefined", debug |-> "false",
     formats |-> "undefined", bounds |-> "undefined", modules |-> "undefined",
     bound |-> {}]

\* Object.assign({}, this.modules() || this._service.config.modules)
Modules ==
    IF opts.options.modules # "undefined" THEN opts.options.modules ELSE config.modules

\* modules.toolbar: no custom toolbar element; the default toolbar when modules has none
Toolbar == IF Modules = "undefined" THEN "default" ELSE Modules

\* placeholder: the input unless undefined, else the service's, else the built-in text
Placeholder ==
    IF opts.options.placeholder # "undefined" THEN opts.options.placeholder
    ELSE IF config.placeholder # "undefined" THEN config.placeholder
    ELSE "Insert text here ..."

\* bounds: 'self' is the editor element; a missing one is the service's, else document.body
Bounds ==
    IF opts.options.bounds = "self" THEN "editorElem"
    ELSE IF opts.options.bounds # "undefined" THEN opts.options.bounds
    ELSE IF config.bounds # "undefined" THEN config.bounds
    ELSE "document.body"

\* if (!debug && debug !== false && this._service.config.debug) debug = config.debug
Debug ==
    IF opts.options.debug = "undefined" /\ config.debug # "undefined"
    THEN config.debug
    ELSE opts.options.debug

\* formats: undefined takes the service's (a copy, or null, or undefined)
FormatsOption ==
    IF opts.options.formats = "undefined" THEN config.formats ELSE opts.options.formats

\* this.theme() || (this._service.config.theme ? this._service.config.theme : 'snow')
Theme ==
    IF opts.options.theme # "undefined" THEN opts.options.theme
    ELSE IF config.theme # "undefined" THEN config.theme
    ELSE "snow"

\* the options object handed to new Quill by the editable binder
Options ==
    [bounds |-> Bounds, debug |-> Debug, formats |-> FormatsOption, modules |-> Modules,
     toolbar |-> Toolbar, placeholder |-> Placeholder, readOnly |-> ResolvedReadOnly,
     theme |-> Theme]

\* (a view that leaves the toolbar to the modules configuration)
QuillView_Options_toolbarKept ==
    [bounds |-> "undefined", debug |-> Debug, formats |-> FormatsOption,
     modules |-> Modules, toolbar |-> Toolbar, placeholder |-> "undefined",
     readOnly |-> TRUE, theme |-> Theme]

\* the options object handed to new Quill by the view: modules.toolbar = false,
\* readOnly: true
QuillView_Options ==
    [bounds |-> "undefined", debug |-> Debug, formats |-> FormatsOption,
     modules |-> Modules, toolbar |-> "false", placeholder |-> "undefined",
     readOnly |-> TRUE, theme |-> Theme]

\* the innerHTML signal of the html-only binder before anything is set: ''
NoHtml == [html |-> "", trusted |-> FALSE]

\* an engine that has not been constructed has no options
NoOptions ==
    [bounds |-> "undefined", debug |-> "undefined", formats |-> "undefined",
     modules |-> "undefined", toolbar |-> "undefined", placeholder |-> "undefined",
     readOnly |-> FALSE, theme |-> "undefined"]

NewQuill(n) ==
    [ops |-> EmptyOps, enabled |-> ~ResolvedReadOnly, on |-> NoListeners,
     history |-> 0, range |-> FALSE, id |-> n, options |-> Options]

\* (a loader that emits again to a subscriber it has already served)
LoaderEmits_again == quillSubscription \in {"pending", "done"}

\* QuillService.getQuill().pipe(mergeMap(beforeRender)): emits the module once
LoaderEmits == quillSubscription = "pending"

(***************************************************************************)
(* Operations.                                                             *)
(***************************************************************************)
Config == <<opts, config>>
Inputs == <<readOnly, debounceTime, styles, classes>>
Life == <<rendered, destroyed, quillSubscription, quillEditor, constructed, raf, task>>
Engine == <<quill, host, form, textTimer, editorTimer, eventsSubscription, burst, quiet>>

\* afterNextRender(() => { ... })
AfterNextRender ==
    /\ ~rendered /\ ~destroyed
    /\ rendered' = TRUE
    /\ IF opts.server
       THEN /\ task' = "released"
            /\ trace' = <<E("pendingTasks.add"), E("taskCleanup")>>
            /\ UNCHANGED quillSubscription
       ELSE /\ task' = "held"
            /\ trace' = <<E("pendingTasks.add")>>
            /\ quillSubscription' = "pending"
    /\ lastAct' = "AfterNextRender"
    /\ UNCHANGED <<Config, Inputs, Engine, destroyed, quillEditor, constructed, raf,
                   content, disabled, previousStyles, previousClasses>>

\* (a loader callback that attaches the listeners before it writes the held value)
QuillLoaded_listenersFirst ==
    /\ LoaderEmits
    /\ constructed < MaxInstances
    /\ LET n == constructed + 1
           w0 == Log([World EXCEPT
                        !.quill = NewQuill(n),
                        !.host.styles = IF styles # NoStyles THEN @ \cup styles ELSE @,
                        !.host.classes = IF Present(classes) THEN @ \cup ClassSet(classes) ELSE @],
                     EvN("new Quill", n))
           w1 == addQuillEventListeners(w0, debounceTime)
           w2 == flushContent(w1)
           w3 == setDisabledState(w2, disabled, readOnly)
           direct == ~Observed("onEditorCreated") /\ ~form.onValidator
       IN /\ Commit(IF direct THEN Log(w3, E("taskCleanup")) ELSE w3)
          /\ quillEditor' = n
          /\ constructed' = n
          /\ raf' = ~direct
          /\ task' = IF direct THEN "released" ELSE task
    /\ previousStyles' = IF styles # NoStyles THEN styles ELSE previousStyles
    /\ previousClasses' = IF Present(classes) THEN classes ELSE previousClasses
    /\ quillSubscription' = "done"
    /\ lastAct' = "QuillLoaded"
    /\ UNCHANGED <<Config, Inputs, rendered, destroyed, content, disabled>>

\* the loader subscription's callback: configure, instantiate, flush, wire
QuillLoaded ==
    /\ LoaderEmits
    /\ constructed < MaxInstances
    /\ LET n == constructed + 1
           w0 == Log([World EXCEPT
                        !.quill = NewQuill(n),
                        !.host.styles = IF styles # NoStyles THEN @ \cup styles ELSE @,
                        !.host.classes = IF Present(classes) THEN @ \cup ClassSet(classes) ELSE @],
                     EvN("new Quill", n))
           w1 == flushContent(w0)
           w2 == setDisabledState(w1, disabled, readOnly)
           w3 == addQuillEventListeners(w2, debounceTime)
           direct == ~Observed("onEditorCreated") /\ ~form.onValidator
       IN /\ Commit(IF direct THEN Log(w3, E("taskCleanup")) ELSE w3)
          /\ quillEditor' = n
          /\ constructed' = n
          /\ raf' = ~direct
          /\ task' = IF direct THEN "released" ELSE task
    /\ previousStyles' = IF styles # NoStyles THEN styles ELSE previousStyles
    /\ previousClasses' = IF Present(classes) THEN classes ELSE previousClasses
    /\ quillSubscription' = "done"
    /\ lastAct' = "QuillLoaded"
    /\ UNCHANGED <<Config, Inputs, rendered, destroyed, content, disabled>>

\* (a frame callback that stays scheduled after it has run)
CreatedCallback_repeats ==
    /\ raf /\ ~destroyed
    /\ task' = "released"
    /\ trace' = (IF form.onValidator THEN <<E("onValidatorChanged")>> ELSE <<>>)
                \o (IF Observed("onEditorCreated")
                    THEN <<EvN("onEditorCreated", quillEditor)>> ELSE <<>>)
                \o <<E("taskCleanup")>>
    /\ lastAct' = "CreatedCallback"
    /\ UNCHANGED <<Config, Inputs, Engine, rendered, destroyed, quillSubscription,
                   quillEditor, constructed, content, disabled, previousStyles, previousClasses, raf>>

\* raf$().pipe(takeUntilDestroyed(...)).subscribe(() => { ... })
CreatedCallback ==
    /\ raf /\ ~destroyed
    /\ raf' = FALSE
    /\ task' = "released"
    /\ trace' = (IF form.onValidator THEN <<E("onValidatorChanged")>> ELSE <<>>)
                \o (IF Observed("onEditorCreated")
                    THEN <<EvN("onEditorCreated", quillEditor)>> ELSE <<>>)
                \o <<E("taskCleanup")>>
    /\ lastAct' = "CreatedCallback"
    /\ UNCHANGED <<Config, Inputs, Engine, rendered, destroyed, quillSubscription,
                   quillEditor, constructed, content, disabled, previousStyles, previousClasses>>

\* (a teardown that leaves the loader subscription alone)
Destroy_keepsLoader ==
    /\ ~destroyed
    /\ destroyed' = TRUE
    /\ Commit(Dispose(World))
    /\ raf' = FALSE
    /\ lastAct' = "Destroy"
    /\ UNCHANGED <<Config, Inputs, rendered, quillEditor, constructed, task,
                   content, disabled, previousStyles, previousClasses, quillSubscription>>

\* this._destroyRef.onDestroy(() => { ... }); takeUntilDestroyed drops the raf callback
Destroy ==
    /\ ~destroyed
    /\ destroyed' = TRUE
    /\ Commit(Dispose(World))
    /\ quillSubscription' = "null"
    /\ raf' = FALSE
    /\ lastAct' = "Destroy"
    /\ UNCHANGED <<Config, Inputs, rendered, quillEditor, constructed, task,
                   content, disabled, previousStyles, previousClasses>>

\* (a filter that drops every empty value)
Filtered_anyEmpty(currentValue) == opts.filterNull /\ ~Truthy(currentValue)

\* if (this.filterNull() && currentValue === null) return
Filtered(currentValue) == opts.filterNull /\ currentValue = Null

\* (a writeValue that does not wait for the instance)
WriteValue_unguarded(currentValue) ==
    /\ ~destroyed
    /\ LET w == Log(World, [Ev("writeValue", currentValue, "")
                             EXCEPT !.n = Len(getText(quill))])
       IN IF Filtered(currentValue)
          THEN /\ Commit(w)
               /\ UNCHANGED content
          ELSE /\ content' = currentValue
               /\ Commit(writeToEngine(w, currentValue))
    /\ lastAct' = "WriteValue"
    /\ UNCHANGED <<Config, Inputs, Life, disabled, previousStyles, previousClasses>>

\* writeValue(currentValue)
WriteValue(currentValue) ==
    /\ ~destroyed
    /\ LET w == Log(World, [Ev("writeValue", currentValue, "")
                             EXCEPT !.n = Len(getText(quill))])
       IN IF Filtered(currentValue)
          THEN /\ Commit(w)
               /\ UNCHANGED content
          ELSE /\ content' = currentValue
               /\ Commit(IF quillEditor = 0 THEN w
                         ELSE writeToEngine(w, currentValue))
    /\ lastAct' = "WriteValue"
    /\ UNCHANGED <<Config, Inputs, Life, disabled, previousStyles, previousClasses>>

\* A registered onChange callback that hands the value it receives back to
\* writeValue (a two-way binding); the engine calls it from inside the write, so
\* each round is one step, and rounds are numbered modulo 2 to tell them apart.
ModelChangeWritesBack ==
    /\ ~destroyed
    /\ \E i \in DOMAIN trace : trace[i].k = "onModelChange"
    /\ LET received == trace[CHOOSE i \in DOMAIN trace : trace[i].k = "onModelChange"].v
           round == IF lastAct = "ModelChangeWritesBack" THEN 1 - trace[1].n ELSE 0
           w == Log(World, [Ev("writeValue", received, "") EXCEPT !.n = round])
       IN IF Filtered(received)
          THEN /\ Commit(w)
               /\ UNCHANGED content
          ELSE /\ content' = received
               /\ Commit(IF quillEditor = 0 THEN w ELSE writeToEngine(w, received))
    /\ lastAct' = "ModelChangeWritesBack"
    /\ UNCHANGED <<Config, Inputs, Life, disabled, previousStyles, previousClasses>>

\* (a setDisabledState that returns early, before storing, when no instance is held)
SetDisabledState_notStored(isDisabled) ==
    /\ ~destroyed
    /\ disabled' = IF quillEditor = 0 THEN disabled ELSE isDisabled
    /\ LET w == Log(World, [Ev("setDisabledState", Bool(isDisabled), "")
                             EXCEPT !.n = IF disabled THEN 1 ELSE 0])
       IN Commit(IF quillEditor = 0 THEN w
                 ELSE setDisabledState(w, isDisabled, readOnly))
    /\ lastAct' = "SetDisabledState"
    /\ UNCHANGED <<Config, Inputs, Life, content, previousStyles, previousClasses>>

\* setDisabledState(isDisabled)
SetDisabledState(isDisabled) ==
    /\ ~destroyed
    /\ disabled' = isDisabled
    /\ LET w == Log(World, [Ev("setDisabledState", Bool(isDisabled), "")
                             EXCEPT !.n = IF disabled THEN 1 ELSE 0])
       IN Commit(IF quillEditor = 0 THEN w
                 ELSE setDisabledState(w, isDisabled, readOnly))
    /\ lastAct' = "SetDisabledState"
    /\ UNCHANGED <<Config, Inputs, Life, content, previousStyles, previousClasses>>

\* registerOnChange(fn)
RegisterOnChange ==
    /\ ~destroyed /\ ~form.onChange
    /\ form' = [form EXCEPT !.onChange = TRUE]
    /\ trace' = <<>>
    /\ lastAct' = "RegisterOnChange"
    /\ UNCHANGED <<Config, Inputs, Life, quill, host, textTimer, editorTimer,
                   eventsSubscription, burst, quiet, content, disabled, previousStyles, previousClasses>>

\* registerOnTouched(fn)
RegisterOnTouched ==
    /\ ~destroyed /\ ~form.onTouched
    /\ form' = [form EXCEPT !.onTouched = TRUE]
    /\ trace' = <<>>
    /\ lastAct' = "RegisterOnTouched"
    /\ UNCHANGED <<Config, Inputs, Life, quill, host, textTimer, editorTimer,
                   eventsSubscription, burst, quiet, content, disabled, previousStyles, previousClasses>>

\* registerOnValidatorChange(fn)
RegisterOnValidatorChange ==
    /\ ~destroyed /\ ~form.onValidator
    /\ form' = [form EXCEPT !.onValidator = TRUE]
    /\ trace' = <<>>
    /\ lastAct' = "RegisterOnValidatorChange"
    /\ UNCHANGED <<Config, Inputs, Life, quill, host, textTimer, editorTimer,
                   eventsSubscription, burst, quiet, content, disabled, previousStyles, previousClasses>>

\* The engine's content changes from outside the binder: typing (source 'user',
\* refused by a disabled engine) or a caller using the engine's own API.
EngineTextChange(line, src) ==
    /\ constructed > 0
    /\ src = "user" => quill.enabled
    /\ Commit(EmitTextChange([World EXCEPT !.quill.ops = TextDoc(line),
                                           !.quill.history = 1], src))
    /\ lastAct' = "EngineTextChange"
    /\ UNCHANGED <<Config, Inputs, Life, content, disabled, previousStyles, previousClasses>>

\* The engine's content becomes a single embed (an image), followed by the newline.
EngineInsertEmbed(src) ==
    /\ constructed > 0
    /\ src = "user" => quill.enabled
    /\ Commit(EmitTextChange(
                [World EXCEPT !.quill.ops = Normalize(<<[insert |-> "image", embed |-> TRUE]>>),
                              !.quill.history = 1], src))
    /\ lastAct' = "EngineInsertEmbed"
    /\ UNCHANGED <<Config, Inputs, Life, content, disabled, previousStyles, previousClasses>>

\* (a validate that does not ask whether an instance is held)
Validate_unguarded ==
    /\ Commit(validate(Log(World, E("validate"))))
    /\ lastAct' = "Validate"
    /\ UNCHANGED <<Config, Inputs, Life, content, disabled, previousStyles, previousClasses>>

\* validate()
Validate ==
    /\ Commit(IF quillEditor = 0
              THEN Log(Log(World, E("validate")), Ev("return", Null, ""))
              ELSE validate(Log(World, E("validate"))))
    /\ lastAct' = "Validate"
    /\ UNCHANGED <<Config, Inputs, Life, content, disabled, previousStyles, previousClasses>>

\* The engine's selection changes: range is the new selection (FALSE: null).
EngineSelectionChange(range, src) ==
    /\ constructed > 0
    /\ range \/ quill.range
    /\ Commit(EmitSelectionChange([World EXCEPT !.quill.range = range],
                                  range, quill.range, src))
    /\ lastAct' = "EngineSelectionChange"
    /\ UNCHANGED <<Config, Inputs, Life, content, disabled, previousStyles, previousClasses>>

\* Time passes while a debounce timer runs; a timer that is due fires first.
Tick ==
    /\ textTimer.armed \/ editorTimer.armed
    /\ ~(textTimer.armed /\ textTimer.left = 0)
    /\ ~(editorTimer.armed /\ editorTimer.left = 0)
    /\ textTimer' = [textTimer EXCEPT !.left = Dec(@)]
    /\ editorTimer' = [editorTimer EXCEPT !.left = Dec(@)]
    /\ quiet' = Min(quiet + 1, MaxDebounce + 1)
    /\ trace' = <<>>
    /\ lastAct' = "Tick"
    /\ UNCHANGED <<Config, Inputs, Life, quill, host, form, eventsSubscription, burst,
                   content, disabled, previousStyles, previousClasses>>

\* debounceTime() delivers the last text-change it holds to textChangeHandler
TextDebounceFire ==
    /\ textTimer.armed /\ textTimer.left = 0
    /\ Commit(textChangeHandler(
                Log([World EXCEPT !.textTimer = NoTextTimer, !.burst = 0],
                    EvN("deliver:text-change", burst)),
                textTimer.src))
    /\ lastAct' = "TextDebounceFire"
    /\ UNCHANGED <<Config, Inputs, Life, content, disabled, previousStyles, previousClasses>>

\* debounceTime() delivers the last editor-change it holds to editorChangeHandler
EditorDebounceFire ==
    /\ editorTimer.armed /\ editorTimer.left = 0
    /\ Commit(editorChangeHandler(
                Log([World EXCEPT !.editorTimer = NoEditorTimer],
                    E("deliver:editor-change")),
                editorTimer.ev, editorTimer.src))
    /\ lastAct' = "EditorDebounceFire"
    /\ UNCHANGED <<Config, Inputs, Life, content, disabled, previousStyles, previousClasses>>

\* toObservable(this.debounceTime).subscribe(...); <<0>> and <<>> are falsy
DebounceTimeChange(dt) ==
    /\ ~destroyed
    /\ dt # debounceTime
    /\ debounceTime' = dt
    /\ Commit(IF quillEditor = 0 THEN World
              ELSE IF dt # <<>> /\ dt # <<0>> THEN addQuillEventListeners(World, dt)
              ELSE World)
    /\ lastAct' = "DebounceTimeChange"
    /\ UNCHANGED <<Config, readOnly, styles, classes, Life, content, disabled, previousStyles, previousClasses>>

\* toObservable(this.readOnly).subscribe((readOnly) => this._quillEditor?.enable(readOnly))
\* quill.enable(enabled = true): enable(undefined) enables
ReadOnlyChange(ro) ==
    /\ ~destroyed
    /\ ro # readOnly
    /\ readOnly' = ro
    /\ Commit(IF quillEditor = 0 THEN World
              ELSE Log([World EXCEPT !.quill.enabled = (ro # "false")],
                       Ev("enable", Str(ro), "")))
    /\ lastAct' = "ReadOnlyChange"
    /\ UNCHANGED <<Config, debounceTime, styles, classes, Life, content, disabled, previousStyles, previousClasses>>

\* (a styles subscriber that does not remove the keys of the previous value)
StylesChange_keepsPrevious(st) ==
    /\ ~destroyed
    /\ st # styles
    /\ styles' = st
    /\ LET added == IF st # NoStyles THEN st ELSE {}
       IN IF constructed = 0 /\ added # {}
          THEN /\ Commit(Log(World, E("TypeError")))
               /\ UNCHANGED previousStyles
          ELSE /\ Commit([World EXCEPT !.host.styles = @ \cup added])
               /\ previousStyles' = st
    /\ lastAct' = "StylesChange"
    /\ UNCHANGED <<Config, readOnly, debounceTime, classes, Life, content, disabled,
                   previousClasses>>

\* toObservable(this.styles).subscribe(...): remove the previous keys, set the
\* current ones; the renderer fails on an element that does not exist yet
StylesChange(st) ==
    /\ ~destroyed
    /\ st # styles
    /\ styles' = st
    /\ LET removed == IF previousStyles # NoStyles THEN previousStyles ELSE {}
           added == IF st # NoStyles THEN st ELSE {}
       IN IF constructed = 0 /\ removed \cup added # {}
          THEN /\ Commit(Log(World, E("TypeError")))
               /\ UNCHANGED previousStyles
          ELSE /\ Commit([World EXCEPT !.host.styles = (@ \ removed) \cup added])
               /\ previousStyles' = st
    /\ lastAct' = "StylesChange"
    /\ UNCHANGED <<Config, readOnly, debounceTime, classes, Life, content, disabled,
                   previousClasses>>

\* toObservable(this.classes).subscribe(...): removeClasses(previous), addClasses(current)
\* on the editor element; before the element exists the renderer call throws
ClassesChange(c) ==
    /\ ~destroyed
    /\ c # classes
    /\ classes' = c
    /\ LET removed == IF Present(previousClasses) THEN ClassSet(previousClasses) ELSE {}
           added == IF Present(c) THEN ClassSet(c) ELSE {}
       IN IF constructed = 0 /\ removed \cup added # {}
          THEN /\ Commit(Log(World, E("TypeError")))
               /\ UNCHANGED previousClasses
          ELSE /\ Commit([World EXCEPT !.host.classes = (@ \ removed) \cup added])
               /\ previousClasses' = c
    /\ lastAct' = "ClassesChange"
    /\ UNCHANGED <<Config, readOnly, debounceTime, styles, Life, content, disabled,
                   previousStyles>>

(***************************************************************************)
(* The read-only binder (QuillViewComponent).  It shares the engine, the   *)
(* loader and the lifecycle fields; content is its content input.          *)
(***************************************************************************)
\* afterNextRender(() => { ... }) of the view: subscribes to the loader
QuillView_AfterNextRender ==
    /\ ~rendered /\ ~destroyed
    /\ rendered' = TRUE
    /\ quillSubscription' = IF opts.server THEN quillSubscription ELSE "pending"
    /\ trace' = <<>>
    /\ lastAct' = "QuillView_AfterNextRender"
    /\ UNCHANGED <<Config, Inputs, Engine, destroyed, quillEditor, constructed, raf, task,
                   content, disabled, previousStyles, previousClasses>>

\* the view's loader callback: instantiate read-only, write the content input
QuillView_QuillLoaded ==
    /\ LoaderEmits
    /\ constructed < MaxInstances
    /\ LET n == constructed + 1
           w0 == Log([World EXCEPT !.quill = [NewQuill(n) EXCEPT !.enabled = FALSE,
                                                       !.options = QuillView_Options]],
                     EvN("new Quill", n))
           w1 == IF Truthy(content) THEN QuillView_valueSetter(w0, content) ELSE w0
           direct == ~Observed("onEditorCreated")
       IN /\ Commit(IF direct THEN Log(w1, E("taskCleanup")) ELSE w1)
          /\ quillEditor' = n
          /\ constructed' = n
          /\ raf' = ~direct
          /\ task' = IF direct THEN "released" ELSE task
    /\ quillSubscription' = "done"
    /\ lastAct' = "QuillView_QuillLoaded"
    /\ UNCHANGED <<Config, Inputs, rendered, destroyed, content, disabled, previousStyles, previousClasses>>

\* the view's raf$ callback
QuillView_CreatedCallback ==
    /\ raf /\ ~destroyed
    /\ raf' = FALSE
    /\ task' = "released"
    /\ trace' = <<EvN("onEditorCreated", quillEditor), E("taskCleanup")>>
    /\ lastAct' = "QuillView_CreatedCallback"
    /\ UNCHANGED <<Config, Inputs, Engine, rendered, destroyed, quillSubscription,
                   quillEditor, constructed, content, disabled, previousStyles, previousClasses>>

\* (a view teardown that leaves the loader subscription alone)
QuillView_Destroy_keepsLoader ==
    /\ ~destroyed
    /\ destroyed' = TRUE
    /\ raf' = FALSE
    /\ trace' = <<>>
    /\ lastAct' = "QuillView_Destroy"
    /\ UNCHANGED <<Config, Inputs, Engine, rendered, quillEditor, constructed, task,
                   content, disabled, previousStyles, previousClasses, quillSubscription>>

\* the view is destroyed: onDestroy(() => quillSubscription.unsubscribe()) if it
\* was registered, takeUntilDestroyed, and the content effect stops
QuillView_Destroy ==
    /\ ~destroyed
    /\ destroyed' = TRUE
    /\ quillSubscription' = IF rendered /\ ~opts.server THEN "null" ELSE quillSubscription
    /\ raf' = FALSE
    /\ trace' = <<>>
    /\ lastAct' = "QuillView_Destroy"
    /\ UNCHANGED <<Config, Inputs, Engine, rendered, quillEditor, constructed, task,
                   content, disabled, previousStyles, previousClasses>>

\* toObservable(this.content).subscribe((content) => { ... })
QuillView_ContentChange(v) ==
    /\ ~destroyed
    /\ v # content
    /\ content' = v
    /\ Commit(IF quillEditor # 0 /\ Truthy(v)
              THEN QuillView_valueSetter(World, v) ELSE World)
    /\ lastAct' = "QuillView_ContentChange"
    /\ UNCHANGED <<Config, Inputs, Life, disabled, previousStyles, previousClasses>>

(***************************************************************************)
(* The html-only binder (QuillViewHTMLComponent): no engine; content is    *)
(* its content input, opts.sanitize its sanitize input, host.innerHTML the *)
(* value bound to the element (trusted: sanitization bypassed).            *)
(***************************************************************************)
\* (a binder that trusts the content whatever the flag)
QuillViewHTML_innerHTML_alwaysTrusted(value, shouldSanitize) ==
    [html |-> value.s, trusted |-> TRUE]

\* sanitize ? content : this._sanitizer.bypassSecurityTrustHtml(content)
QuillViewHTML_innerHTML(value, shouldSanitize) ==
    LET sanitize == IF shouldSanitize \in Bools THEN shouldSanitize = "true"
                    ELSE config.sanitize = "true"
    IN [html |-> value.s, trusted |-> ~sanitize]

\* the first run of the two input effects: combineLatest emits the current pair
QuillViewHTML_FirstEmission ==
    /\ ~rendered /\ ~destroyed
    /\ rendered' = TRUE
    /\ host' = [host EXCEPT !.innerHTML = QuillViewHTML_innerHTML(content, opts.sanitize)]
    /\ trace' = <<>>
    /\ lastAct' = "QuillViewHTML_FirstEmission"
    /\ UNCHANGED <<Config, Inputs, destroyed, quillSubscription, quillEditor, constructed,
                   raf, task, content, disabled, previousStyles, previousClasses, quill, form, textTimer,
                   editorTimer, eventsSubscription, burst, quiet>>

\* the content input changes; once the effects run, combineLatest emits the new pair
QuillViewHTML_ContentChange(v) ==
    /\ ~destroyed
    /\ v # content
    /\ content' = v
    /\ host' = IF rendered
               THEN [host EXCEPT !.innerHTML = QuillViewHTML_innerHTML(v, opts.sanitize)]
               ELSE host
    /\ trace' = <<>>
    /\ lastAct' = "QuillViewHTML_ContentChange"
    /\ UNCHANGED <<Config, Inputs, Life, disabled, previousStyles, previousClasses, quill, form, textTimer,
                   editorTimer, eventsSubscription, burst, quiet>>

\* the sanitize input changes
QuillViewHTML_SanitizeChange(f) ==
    /\ ~destroyed
    /\ f # opts.sanitize
    /\ opts' = [opts EXCEPT !.sanitize = f]
    /\ host' = IF rendered
               THEN [host EXCEPT !.innerHTML = QuillViewHTML_innerHTML(content, f)]
               ELSE host
    /\ trace' = <<>>
    /\ lastAct' = "QuillViewHTML_SanitizeChange"
    /\ UNCHANGED <<config, Inputs, Life, content, disabled, previousStyles, previousClasses, quill, form,
                   textTimer, editorTimer, eventsSubscription, burst, quiet>>

\* the html-only binder is destroyed: its effects stop
QuillViewHTML_Destroy ==
    /\ ~destroyed
    /\ destroyed' = TRUE
    /\ trace' = <<>>
    /\ lastAct' = "QuillViewHTML_Destroy"
    /\ UNCHANGED <<Config, Inputs, Engine, rendered, quillSubscription, quillEditor,
                   constructed, raf, task, content, disabled, previousStyles, previousClasses>>

(***************************************************************************)
(* Specifications.                                                         *)
(***************************************************************************)
NoOutputs == {}
BoundOutputs == {"onContentChanged", "onEditorChanged", "onSelectionChanged",
                 "onEditorCreated"}

NoConfig ==
    [format |-> "undefined", trackChanges |-> "undefined", readOnly |-> "undefined",
     sanitize |-> "undefined", theme |-> "undefined", placeholder |-> "undefined",
     debug |-> "undefined", formats |-> "undefined", bounds |-> "undefined",
     modules |-> "undefined"]

\* the state a constructed component is in, whatever its inputs
InitState ==
    /\ rendered = FALSE
    /\ destroyed = FALSE
    /\ quillSubscription = "null"
    /\ quillEditor = 0
    /\ constructed = 0
    /\ content = Undefined
    /\ disabled = FALSE
    /\ eventsSubscription = NoSubscription
    /\ previousStyles = NoStyles
    /\ previousClasses = NoClasses
    /\ quill = [ops |-> EmptyOps, enabled |-> TRUE, on |-> NoListeners,
                history |-> 0, range |-> FALSE, id |-> 0, options |-> NoOptions]
    /\ host = [disabled |-> FALSE, styles |-> {}, classes |-> {}, innerHTML |-> NoHtml]
    /\ form = [onChange |-> FALSE, onTouched |-> FALSE, onValidator |-> FALSE,
               value |-> Undefined, dirty |-> FALSE, touched |-> FALSE]
    /\ textTimer = NoTextTimer
    /\ editorTimer = NoEditorTimer
    /\ raf = FALSE
    /\ task = "none"
    /\ lastAct = "constructor"
    /\ trace = <<>>
    /\ burst = 0
    /\ quiet = 0

\* the values a form hands to writeValue under each format
WriteLines == {"a", "b"}
ValuesOf(format) ==
    CASE format = "text" -> {Null, Undefined, Str("")} \cup {Str(l) : l \in WriteLines}
      [] format = "object" -> {Null, Arr(<<Ins("a")>>), Delta(<<Ins("b\n")>>)}
      [] format = "json" -> {Null, Str(""), Str("{a"), Str(Stringify(Arr(<<Ins("a")>>)))}
      [] OTHER -> {Null, Str(""), Str(Html("")), Str(Html("a"))}

Sources == {"user", "api"}

\* Write path and lifecycle, events delivered undebounced.
Init ==
    /\ InitState
    /\ opts \in [format : Formats, trackChanges : {"undefined", "all"}, sanitize : {"undefined"},
                 filterNull : BOOLEAN, compareValues : BOOLEAN, server : BOOLEAN,
                 defaultEmptyValue : {Null}, observed : {BoundOutputs},
                 required : {FALSE}, minLength : {0}, maxLength : {0},
                 trimOnValidation : {FALSE}, selector : {"quill-editor"},
                 options : {DefaultInputs}]
    /\ opts.server => opts.format = "text" /\ ~opts.filterNull /\ ~opts.compareValues
    /\ config = NoConfig
    /\ readOnly = "false"
    /\ debounceTime = <<>>
    /\ styles = NoStyles
    /\ classes = NoClasses

Next ==
    \/ AfterNextRender
    \/ QuillLoaded
    \/ CreatedCallback
    \/ Destroy
    \/ \E v \in ValuesOf(Format) : WriteValue(v)
    \/ RegisterOnChange
    \/ \E l \in WriteLines \cup {""}, src \in Sources : EngineTextChange(l, src)

Spec == Init /\ [][Next]_vars

\* Settings applied to a live engine: read-only flag, disabled state, inline styles.
InitSettings ==
    /\ InitState
    /\ opts \in [format : {"text"}, trackChanges : {"undefined"}, sanitize : {"undefined"},
                 filterNull : {FALSE}, compareValues : {FALSE}, server : {FALSE},
                 defaultEmptyValue : {Null}, observed : {NoOutputs, BoundOutputs},
                 required : {FALSE}, minLength : {0}, maxLength : {0},
                 trimOnValidation : {FALSE}, selector : {"quill-editor"},
                 options : {[DefaultInputs EXCEPT !.bound = {"readOnly"}]}]
    /\ config \in {NoConfig, [NoConfig EXCEPT !.readOnly = "true"]}
    /\ readOnly \in Bools \cup {"undefined"}
    /\ debounceTime = <<>>
    /\ styles \in {NoStyles, {"height"}}
    /\ classes = NoClasses

NextSettings ==
    \/ AfterNextRender
    \/ QuillLoaded
    \/ CreatedCallback
    \/ Destroy
    \/ \E b \in BOOLEAN : SetDisabledState(b)
    \/ \E ro \in Bools \cup {"undefined"} : ReadOnlyChange(ro)
    \/ \E st \in {NoStyles, {"height"}, {"color"}} : StylesChange(st)
    \/ \E l \in WriteLines : EngineTextChange(l, "user")

SpecSettings == InitSettings /\ [][NextSettings]_vars

\* The event pipeline: the three engine streams, debounced or not, and teardown.
Intervals == {<<>>} \cup {<<n>> : n \in 0..MaxDebounce}

InitEvents ==
    /\ InitState
    /\ opts \in [format : {"text"}, trackChanges : {"undefined"}, sanitize : {"undefined"},
                 filterNull : {FALSE}, compareValues : {FALSE}, server : {FALSE},
                 defaultEmptyValue : {Null}, observed : {NoOutputs, BoundOutputs},
                 required : {FALSE}, minLength : {0}, maxLength : {0},
                 trimOnValidation : {FALSE}, selector : {"quill-editor"},
                 options : {DefaultInputs}]
    /\ config = NoConfig
    /\ readOnly = "false"
    /\ debounceTime \in Intervals
    /\ styles = NoStyles
    /\ classes = NoClasses

NextEvents ==
    \/ AfterNextRender
    \/ QuillLoaded
    \/ CreatedCallback
    \/ Destroy
    \/ \E l \in WriteLines, src \in Sources : EngineTextChange(l, src)
    \/ \E range \in BOOLEAN : EngineSelectionChange(range, "user")
    \/ Tick
    \/ TextDebounceFire
    \/ EditorDebounceFire
    \/ \E dt \in Intervals : DebounceTimeChange(dt)

SpecEvents == InitEvents /\ [][NextEvents]_vars

\* Validation: required, minLength, maxLength and trimOnValidation against the
\* engine's text (0 stands for a length input left undefined).
MinLengths == {0, 3}
MaxLengths == {0, 5}
ValidationLines == {"", "a", " ", "abcd", " abcd ", "abcdef"}

InitValidation ==
    /\ InitState
    /\ opts \in [format : {"text"}, trackChanges : {"undefined"}, sanitize : {"undefined"},
                 filterNull : {FALSE}, compareValues : {FALSE}, server : {FALSE},
                 defaultEmptyValue : {Null}, observed : {NoOutputs},
                 required : BOOLEAN, minLength : MinLengths, maxLength : MaxLengths,
                 trimOnValidation : BOOLEAN, selector : {"quill-editor"},
                 options : {DefaultInputs}]
    /\ config = NoConfig
    /\ readOnly = "false"
    /\ debounceTime = <<>>
    /\ styles = NoStyles
    /\ classes = NoClasses

NextValidation ==
    \/ AfterNextRender
    \/ QuillLoaded
    \/ CreatedCallback
    \/ Destroy
    \/ RegisterOnValidatorChange
    \/ \E l \in ValidationLines : EngineTextChange(l, "user")
    \/ EngineInsertEmbed("user")
    \/ Validate

SpecValidation == InitValidation /\ [][NextValidation]_vars

\* The format adapter under html and json, in the editable and the read-only
\* binder: sanitizing, the empty-value sentinel, the fallback for invalid JSON.
Editor == opts.selector = "quill-editor"
View == opts.selector = "quill-view"
Flags == Bools \cup {"undefined"}

AdapterValues(format) ==
    CASE format = "json" -> {Null, Str("{a"), Str("b"), Str(Stringify(Arr(<<Ins("a")>>)))}
      [] OTHER -> {Null, Str(Html("a")), Str(UnsafeHtml)}

\* the state a constructed view is in: its constructor has taken the pending task
InitViewState ==
    /\ rendered = FALSE
    /\ destroyed = FALSE
    /\ quillSubscription = "null"
    /\ quillEditor = 0
    /\ constructed = 0
    /\ content = Undefined
    /\ disabled = FALSE
    /\ eventsSubscription = NoSubscription
    /\ previousStyles = NoStyles
    /\ previousClasses = NoClasses
    /\ quill = [ops |-> EmptyOps, enabled |-> TRUE, on |-> NoListeners,
                history |-> 0, range |-> FALSE, id |-> 0, options |-> NoOptions]
    /\ host = [disabled |-> FALSE, styles |-> {}, classes |-> {}, innerHTML |-> NoHtml]
    /\ form = [onChange |-> FALSE, onTouched |-> FALSE, onValidator |-> FALSE,
               value |-> Undefined, dirty |-> FALSE, touched |-> FALSE]
    /\ textTimer = NoTextTimer
    /\ editorTimer = NoEditorTimer
    /\ raf = FALSE
    /\ task = "held"
    /\ lastAct = "constructor"
    /\ trace = <<>>
    /\ burst = 0
    /\ quiet = 0

InitAdapter ==
    /\ opts \in [format : {"html", "json"}, trackChanges : {"undefined"}, sanitize : Flags,
                 filterNull : {FALSE}, compareValues : {FALSE}, server : {FALSE},
                 defaultEmptyValue : {Null, Str("")}, observed : {NoOutputs},
                 required : {FALSE}, minLength : {0}, maxLength : {0},
                 trimOnValidation : {FALSE}, selector : {"quill-editor", "quill-view"},
                 options : {DefaultInputs}]
    /\ config \in {[NoConfig EXCEPT !.sanitize = f] : f \in Flags}
    /\ opts.format = "json" => opts.sanitize = "undefined" /\ config.sanitize = "undefined"
    /\ (opts.format = "json" \/ opts.selector = "quill-view")
         => opts.defaultEmptyValue = Null
    /\ IF View THEN InitViewState ELSE InitState
    /\ readOnly = "false"
    /\ debounceTime = <<>>
    /\ styles = NoStyles
    /\ classes = NoClasses

NextAdapter ==
    \/ Editor /\ AfterNextRender
    \/ Editor /\ QuillLoaded
    \/ Editor /\ Destroy
    \/ Editor /\ RegisterOnChange
    \/ Editor /\ \E v \in AdapterValues(Format) : WriteValue(v)
    \/ Editor /\ \E l \in {"", "a"} : EngineTextChange(l, "user")
    \/ View /\ QuillView_AfterNextRender
    \/ View /\ QuillView_QuillLoaded
    \/ View /\ QuillView_Destroy
    \/ View /\ \E v \in AdapterValues(Format) : QuillView_ContentChange(v)

SpecAdapter == InitAdapter /\ [][NextAdapter]_vars

\* The three handlers, undebounced: every source, trackChanges at both levels,
\* and templates that bind all, some or none of the outputs.
EventOutputs == {"onContentChanged", "onEditorChanged", "onSelectionChanged",
                 "onFocus", "onBlur"}
AllSources == {"user", "api", "silent"}

InitHandlers ==
    /\ InitState
    /\ opts \in [format : {"text"}, trackChanges : {"undefined", "user", "all"},
                 sanitize : {"undefined"},
                 filterNull : {FALSE}, compareValues : {FALSE}, server : {FALSE},
                 defaultEmptyValue : {Null},
                 observed : {NoOutputs, EventOutputs, {"onBlur"}, {"onFocus"}},
                 required : {FALSE}, minLength : {0}, maxLength : {0},
                 trimOnValidation : {FALSE}, selector : {"quill-editor"},
                 options : {DefaultInputs}]
    /\ config \in {NoConfig, [NoConfig EXCEPT !.trackChanges = "all"]}
    /\ readOnly = "false"
    /\ debounceTime = <<>>
    /\ styles = NoStyles
    /\ classes = NoClasses

NextHandlers ==
    \/ AfterNextRender
    \/ QuillLoaded
    \/ Destroy
    \/ RegisterOnChange
    \/ RegisterOnTouched
    \/ \E src \in AllSources : EngineTextChange("a", src)
    \/ \E range \in BOOLEAN, src \in AllSources : EngineSelectionChange(range, src)

SpecHandlers == InitHandlers /\ [][NextHandlers]_vars

\* a service that sets every option
FullConfig ==
    [NoConfig EXCEPT !.theme = "bubble", !.placeholder = "placeholder", !.debug = "log",
                     !.readOnly = "true", !.formats = "bold", !.bounds = "body",
                     !.modules = "toolbar:bold"]

\* The read-only binder alone: its lifecycle and its content input, every format.
InitView ==
    /\ opts \in [format : Formats, trackChanges : {"undefined"}, sanitize : {"undefined"},
                 filterNull : {FALSE}, compareValues : {FALSE}, server : BOOLEAN,
                 defaultEmptyValue : {Null}, observed : {NoOutputs, BoundOutputs},
                 required : {FALSE}, minLength : {0}, maxLength : {0},
                 trimOnValidation : {FALSE}, selector : {"quill-view"},
                 options : {DefaultInputs, [DefaultInputs EXCEPT !.modules = "toolbar:italic"]}]
    /\ opts.server => opts.format = "text" /\ opts.options = DefaultInputs
    /\ config \in {NoConfig, FullConfig}
    /\ config = FullConfig => opts.format = "text"
    /\ InitViewState
    /\ readOnly = "false"
    /\ debounceTime = <<>>
    /\ styles = NoStyles
    /\ classes = NoClasses

NextView ==
    \/ QuillView_AfterNextRender
    \/ QuillView_QuillLoaded
    \/ QuillView_CreatedCallback
    \/ QuillView_Destroy
    \/ \E v \in ValuesOf(Format) : QuillView_ContentChange(v)

SpecView == InitView /\ [][NextView]_vars

\* The html-only binder: content and sanitize changes.
ViewHTML == opts.selector = "quill-view-html"
HtmlContents == {Str(""), Str(Html("a")), Str(UnsafeHtml)}

InitViewHTML ==
    /\ opts \in [format : {"html"}, trackChanges : {"undefined"}, sanitize : Flags,
                 filterNull : {FALSE}, compareValues : {FALSE}, server : {FALSE},
                 defaultEmptyValue : {Null}, observed : {NoOutputs},
                 required : {FALSE}, minLength : {0}, maxLength : {0},
                 trimOnValidation : {FALSE}, selector : {"quill-view-html"},
                 options : {DefaultInputs}]
    /\ config \in {[NoConfig EXCEPT !.sanitize = f] : f \in Flags}
    /\ rendered = FALSE
    /\ destroyed = FALSE
    /\ quillSubscription = "null"
    /\ quillEditor = 0
    /\ constructed = 0
    /\ content \in HtmlContents
    /\ disabled = FALSE
    /\ eventsSubscription = NoSubscription
    /\ previousStyles = NoStyles
    /\ previousClasses = NoClasses
    /\ quill = [ops |-> EmptyOps, enabled |-> TRUE, on |-> NoListeners,
                history |-> 0, range |-> FALSE, id |-> 0, options |-> NoOptions]
    /\ host = [disabled |-> FALSE, styles |-> {}, classes |-> {}, innerHTML |-> NoHtml]
    /\ form = [onChange |-> FALSE, onTouched |-> FALSE, onValidator |-> FALSE,
               value |-> Undefined, dirty |-> FALSE, touched |-> FALSE]
    /\ textTimer = NoTextTimer
    /\ editorTimer = NoEditorTimer
    /\ raf = FALSE
    /\ task = "none"
    /\ lastAct = "constructor"
    /\ trace = <<>>
    /\ burst = 0
    /\ quiet = 0
    /\ readOnly = "false"
    /\ debounceTime = <<>>
    /\ styles = NoStyles
    /\ classes = NoClasses

NextViewHTML ==
    \/ QuillViewHTML_FirstEmission
    \/ \E v \in HtmlContents : QuillViewHTML_ContentChange(v)
    \/ \E f \in Flags : QuillViewHTML_SanitizeChange(f)
    \/ QuillViewHTML_Destroy

SpecViewHTML == InitViewHTML /\ [][NextViewHTML]_vars

\* Option resolution at instantiation, in both binders: every combination of
\* component-level values against a service that sets nothing or everything.
OptionInputs ==
    [theme : {"undefined", "dark"}, placeholder : {"undefined", "type here"},
     debug : {"false", "warn", "undefined"}, formats : {"undefined", "null", "italic"},
     bounds : {"undefined", "self"}, modules : {"undefined", "toolbar:italic"},
     bound : SUBSET {"readOnly", "debug"}]

InitOptions ==
    /\ opts \in [format : {"text"}, trackChanges : {"undefined"}, sanitize : {"undefined"},
                 filterNull : {FALSE}, compareValues : {FALSE}, server : {FALSE},
                 defaultEmptyValue : {Null}, observed : {BoundOutputs},
                 required : {FALSE}, minLength : {0}, maxLength : {0},
                 trimOnValidation : {FALSE}, selector : {"quill-editor", "quill-view"},
                 options : OptionInputs]
    /\ "debug" \notin opts.options.bound => opts.options.debug = "false"
    /\ View => /\ opts.options.placeholder = "undefined"
               /\ opts.options.bounds = "undefined"
               /\ "readOnly" \notin opts.options.bound
    /\ config \in {NoConfig, FullConfig}
    /\ readOnly \in Flags
    /\ "readOnly" \notin opts.options.bound => readOnly = "false"
    /\ IF View THEN InitViewState ELSE InitState
    /\ debounceTime = <<>>
    /\ styles = NoStyles
    /\ classes = NoClasses

NextOptions ==
    \/ Editor /\ AfterNextRender
    \/ Editor /\ QuillLoaded
    \/ Editor /\ CreatedCallback
    \/ Editor /\ Destroy
    \/ View /\ QuillView_AfterNextRender
    \/ View /\ QuillView_QuillLoaded
    \/ View /\ QuillView_CreatedCallback
    \/ View /\ QuillView_Destroy
    \/ View /\ \E v \in {Str("a"), Str("b")} : QuillView_ContentChange(v)

SpecOptions == InitOptions /\ [][NextOptions]_vars

\* Creation and teardown of either engine binder, with a value that may arrive
\* before or after the instance, and with or without an onEditorCreated listener.
InitCreation ==
    /\ opts \in [format : {"text"}, trackChanges : {"undefined"}, sanitize : {"undefined"},
                 filterNull : {FALSE}, compareValues : {FALSE}, server : BOOLEAN,
                 defaultEmptyValue : {Null}, observed : {NoOutputs, BoundOutputs},
                 required : {FALSE}, minLength : {0}, maxLength : {0},
                 trimOnValidation : {FALSE}, selector : {"quill-editor", "quill-view"},
                 options : {DefaultInputs}]
    /\ config = NoConfig
    /\ readOnly = "false"
    /\ IF View THEN InitViewState ELSE InitState
    /\ debounceTime = <<>>
    /\ styles = NoStyles
    /\ classes = NoClasses

NextCreation ==
    \/ Editor /\ AfterNextRender
    \/ Editor /\ QuillLoaded
    \/ Editor /\ CreatedCallback
    \/ Editor /\ Destroy
    \/ Editor /\ RegisterOnValidatorChange
    \/ Editor /\ \E v \in {Null, Str("a"), Str("b")} : WriteValue(v)
    \/ View /\ QuillView_AfterNextRender
    \/ View /\ QuillView_QuillLoaded
    \/ View /\ QuillView_CreatedCallback
    \/ View /\ QuillView_Destroy
    \/ View /\ \E v \in {Str("a"), Str("b")} : QuillView_ContentChange(v)

SpecCreation == InitCreation /\ [][NextCreation]_vars

\* Creation with a value and a disabled state that may have arrived before the
\* instance, under every format, with the callbacks and outputs bound.
InitFlush ==
    /\ InitState
    /\ opts \in [format : Formats, trackChanges : {"all"}, sanitize : {"undefined"},
                 filterNull : {FALSE}, compareValues : {FALSE}, server : {FALSE},
                 defaultEmptyValue : {Null}, observed : {BoundOutputs},
                 required : {FALSE}, minLength : {0}, maxLength : {0},
                 trimOnValidation : {FALSE}, selector : {"quill-editor"},
                 options : {DefaultInputs}]
    /\ config = NoConfig
    /\ readOnly \in Bools
    /\ debounceTime = <<>>
    /\ styles = NoStyles
    /\ classes = NoClasses

NextFlush ==
    \/ AfterNextRender
    \/ QuillLoaded
    \/ CreatedCallback
    \/ Destroy
    \/ RegisterOnChange
    \/ \E v \in ValuesOf(Format) : WriteValue(v)
    \/ \E b \in BOOLEAN : SetDisabledState(b)

SpecFlush == InitFlush /\ [][NextFlush]_vars

\* Styles and classes, set before the instance exists and changed afterwards;
\* the values share keys and class names.
InitStyling ==
    /\ InitState
    /\ opts \in [format : {"text"}, trackChanges : {"undefined"}, sanitize : {"undefined"},
                 filterNull : {FALSE}, compareValues : {FALSE}, server : {FALSE},
                 defaultEmptyValue : {Null}, observed : {NoOutputs},
                 required : {FALSE}, minLength : {0}, maxLength : {0},
                 trimOnValidation : {FALSE}, selector : {"quill-editor"},
                 options : {DefaultInputs}]
    /\ config = NoConfig
    /\ readOnly = "false"
    /\ debounceTime = <<>>
    /\ styles \in {NoStyles, {"height"}}
    /\ classes \in {NoClasses, "a b"}

NextStyling ==
    \/ AfterNextRender
    \/ QuillLoaded
    \/ Destroy
    \/ \E st \in {NoStyles, {"height"}, {"color"}, {"height", "color"}} : StylesChange(st)
    \/ \E c \in {NoClasses, "", " ", "a b", " b  c "} : ClassesChange(c)

SpecStyling == InitStyling /\ [][NextStyling]_vars

\* External writes to a binder whose onChange callback writes back, for every
\* format and trackChanges setting, with and without compareValues.  A round
\* of the write-back runs inside the write that caused it, so no external
\* write comes in between.
InitFeedback ==
    /\ InitState
    /\ opts \in [format : Formats, trackChanges : {"undefined", "user", "all"},
                 sanitize : {"undefined"},
                 filterNull : {FALSE}, compareValues : BOOLEAN, server : {FALSE},
                 defaultEmptyValue : {Null}, observed : {NoOutputs},
                 required : {FALSE}, minLength : {0}, maxLength : {0},
                 trimOnValidation : {FALSE}, selector : {"quill-editor"},
                 options : {DefaultInputs}]
    /\ config = NoConfig
    /\ readOnly = "false"
    /\ debounceTime = <<>>
    /\ styles = NoStyles
    /\ classes = NoClasses

NextFeedback ==
    \/ AfterNextRender
    \/ QuillLoaded
    \/ RegisterOnChange
    \/ /\ \A i \in DOMAIN trace : trace[i].k # "onModelChange"
       /\ \E v \in ValuesOf(Format) : WriteValue(v)
    \/ ModelChangeWritesBack

SpecFeedback == InitFeedback /\ [][NextFeedback]_vars

\* The same, with the scheduling the platform guarantees: a registered
\* afterNextRender callback runs, a subscribed loader delivers, and a requested
\* animation frame fires, each unless it is cancelled first.
SpecCreationLive ==
    /\ SpecCreation
    /\ WF_vars(Editor /\ AfterNextRender)
    /\ WF_vars(Editor /\ QuillLoaded)
    /\ WF_vars(Editor /\ CreatedCallback)
    /\ WF_vars(View /\ QuillView_AfterNextRender)
    /\ WF_vars(View /\ QuillView_QuillLoaded)
    /\ WF_vars(View /\ QuillView_CreatedCallback)

(***************************************************************************)
(* Reading the record of the last operation.                               *)
(***************************************************************************)
IsWrite(e) == e.k \in {"setText", "setContents"}
Writes == SelectSeq(trace, IsWrite)
Has(k) == \E i \in DOMAIN trace : trace[i].k = k
Arg == trace[1].v

\* what the engine holds after the binder has written value v under the format
DocOf(v) ==
    IF Format = "text" THEN TextDoc(v.s) ELSE ContentsDoc(valueSetter(quill, v))

(***************************************************************************)
(* C1.  No engine write happens while the binder holds no instance;        *)
(* writeValue before the instance exists only stores the value in          *)
(* _content; when the instance is created the stored value, if truthy, is  *)
(* written exactly once (silently), and nothing but writeValue stores.     *)
(***************************************************************************)
C1_State ==
    /\ quillEditor = 0 => Writes = <<>> /\ quill.ops = EmptyOps
    /\ (lastAct = "WriteValue" /\ quillEditor = 0) => Len(trace) = 1
    /\ (lastAct = "WriteValue" /\ ~(opts.filterNull /\ Arg = Null)) => content = Arg
    /\ lastAct = "QuillLoaded" =>
         IF Truthy(content)
         THEN /\ Len(Writes) = 1
              /\ Writes[1].src = "silent"
              /\ Writes[1].v = (IF Format = "text" THEN content
                                ELSE valueSetter(quill, content))
              /\ quill.ops = DocOf(content)
         ELSE Writes = <<>> /\ quill.ops = EmptyOps

C1_PendingValueFlushedOnce ==
    /\ []C1_State
    /\ [][content' # content => lastAct' = "WriteValue"]_vars

C1_Witness ==
    /\ lastAct = "QuillLoaded"
    /\ Truthy(content)
    /\ Len(Writes) = 1
    /\ quill.ops # EmptyOps

(***************************************************************************)
(* C2.  writeValue of a falsy value (null, undefined, '') leaves the       *)
(* engine with empty text, whatever it held and whatever the options.      *)
(***************************************************************************)
C2_FalsyWriteAlwaysClears ==
    (lastAct = "WriteValue" /\ quillEditor # 0 /\ ~Truthy(Arg))
        => getText(quill) = "\n"

\* C2 as amended: unless filterNull is set and the value is exactly null.
C2_FalsyWriteClearsUnlessFiltered ==
    (/\ lastAct = "WriteValue" /\ quillEditor # 0 /\ ~Truthy(Arg)
     /\ ~(opts.filterNull /\ Arg = Null))
        => /\ getText(quill) = "\n"
           /\ Len(Writes) = 1 /\ Writes[1].k = "setText" /\ Writes[1].v = Str("")

C2_Witness ==
    /\ lastAct = "WriteValue" /\ quillEditor # 0 /\ ~Truthy(Arg)
    /\ opts.compareValues
    /\ trace[1].n > 1
    /\ getText(quill) = "\n"

(***************************************************************************)
(* C3.  Each time textChangeHandler runs it calls the model-change         *)
(* callback iff one is registered and the source is 'user' or trackChanges *)
(* is 'all', handing it the decoded value; the form's value and dirty flag *)
(* change in no other way, so a writeValue or an API change of the engine  *)
(* with trackChanges not 'all' leaves the model and its pristine state.    *)
(***************************************************************************)
C3_State ==
    \A i \in DOMAIN trace :
        trace[i].k = "textChangeHandler" =>
            LET called == i < Len(trace) /\ trace[i + 1].k = "onModelChange"
            IN /\ called <=> (form.onChange /\ (trace[i].src = "user" \/ TrackChanges = "all"))
               /\ called => /\ trace[i + 1].v = valueGetter(quill)
                            /\ form.value = valueGetter(quill)
                            /\ form.dirty

C3_ModelChangeGate ==
    /\ []C3_State
    /\ [][(form'.value # form.value \/ form'.dirty # form.dirty)
            => \E i \in DOMAIN trace' :
                   /\ trace'[i].k = "onModelChange"
                   /\ trace'[i].src = "user" \/ TrackChanges = "all"]_vars

C3_Witness ==
    /\ lastAct = "WriteValue"
    /\ Has("textChangeHandler")
    /\ form.onChange
    /\ TrackChanges # "all"
    /\ ~Has("onModelChange")
    /\ ~form.dirty

(***************************************************************************)
(* C7.  Once destroyed, the binder holds no loader subscription and no     *)
(* engine instance.                                                        *)
(***************************************************************************)
C7_DestroyReleasesInstance ==
    destroyed => quillEditor = 0 /\ quillSubscription = "null"

\* C7 as amended: the subscriptions are dropped, the instance reference is kept.
C7_DestroyDropsSubscriptions ==
    destroyed => /\ quillSubscription = "null"
                 /\ eventsSubscription = NoSubscription
                 /\ quillEditor = constructed

C7_Witness ==
    /\ destroyed
    /\ lastAct = "Destroy"
    /\ quillEditor # 0
    /\ Has("off:text-change")

C9_ReadOnlyInputTogglesEditability ==
    (lastAct = "ReadOnlyChange" /\ quillEditor # 0)
        => /\ readOnly = "true" => ~quill.enabled
           /\ readOnly = "false" => quill.enabled
           /\ host.styles = (IF previousStyles = NoStyles THEN {} ELSE previousStyles)

(***************************************************************************)
(* C10.  setDisabledState before the instance exists only records the      *)
(* requested state: no engine call, no host attribute; nothing else        *)
(* changes the record; when the instance is created a recorded true        *)
(* disables the engine and sets the host's disabled attribute.             *)
(***************************************************************************)
C10_State ==
    /\ lastAct = "SetDisabledState" => disabled = (Arg = Bool(TRUE))
    /\ (lastAct = "SetDisabledState" /\ quillEditor = 0) => Len(trace) = 1
    /\ quillEditor = 0 => ~host.disabled /\ quill.enabled
    /\ (lastAct = "QuillLoaded" /\ disabled)
         => /\ ~quill.enabled
            /\ host.disabled
            /\ Has("disable") /\ Has("setAttribute:disabled")
    /\ (lastAct = "QuillLoaded" /\ ~disabled) => ~host.disabled

C10_DisabledStateAppliedAtCreation ==
    /\ []C10_State
    /\ [][disabled' # disabled => lastAct' = "SetDisabledState"]_vars

C10_Witness ==
    /\ lastAct = "QuillLoaded"
    /\ disabled
    /\ ~quill.enabled
    /\ host.disabled

(***************************************************************************)
(* C4.  While the live subscription is debounced by d: a native            *)
(* text-change runs no handler and emits nothing, it (re)starts both       *)
(* timers at d; content-changed is emitted only by the text stage when its *)
(* timer is due, at least d ticks after the last native text-change, once  *)
(* for all the events the stage received, carrying the engine's current    *)
(* contents; editor-changed likewise, once, from the editor stage; events  *)
(* held by the stage always have a running timer.                          *)
(***************************************************************************)
Count(k) == Len(SelectSeq(trace, LAMBDA e : e.k = k))
Debounced == eventsSubscription.live /\ eventsSubscription.dt # <<>>
HandlerRuns ==
    Has("textChangeHandler") \/ Has("editorChangeHandler") \/ Has("selectionChangeHandler")
EditorChangedCount == Count("onEditorChanged:text-change") + Count("onEditorChanged:selection-change")

C4_DebouncedEmission ==
    /\ (lastAct = "EngineTextChange" /\ Debounced)
         => /\ ~Has("textChangeHandler") /\ ~Has("editorChangeHandler")
            /\ Count("onContentChanged") = 0 /\ EditorChangedCount = 0
            /\ textTimer.armed /\ textTimer.left = eventsSubscription.dt[1]
            /\ editorTimer.armed /\ editorTimer.left = eventsSubscription.dt[1]
            /\ editorTimer.ev = "text-change"
            /\ quiet = 0
    /\ (Debounced /\ Count("onContentChanged") > 0) => lastAct = "TextDebounceFire"
    /\ (Debounced /\ EditorChangedCount > 0) => lastAct = "EditorDebounceFire"
    /\ lastAct = "TextDebounceFire"
         => /\ Debounced
            /\ quiet >= eventsSubscription.dt[1]
            /\ trace[1].n >= 1
            /\ Count("textChangeHandler") = 1
            /\ Count("onContentChanged") = (IF Observed("onContentChanged") THEN 1 ELSE 0)
            /\ \A i \in DOMAIN trace :
                   trace[i].k = "onContentChanged" => trace[i].v = getContents(quill)
            /\ burst = 0 /\ ~textTimer.armed
    /\ lastAct = "EditorDebounceFire"
         => /\ Debounced
            /\ quiet >= eventsSubscription.dt[1]
            /\ Count("editorChangeHandler") = 1
            /\ EditorChangedCount = (IF Observed("onEditorChanged") THEN 1 ELSE 0)
            /\ \A i \in DOMAIN trace :
                   trace[i].k = "onEditorChanged:text-change" => trace[i].v = getContents(quill)
            /\ ~editorTimer.armed
    /\ burst > 0 <=> textTimer.armed
    /\ textTimer.armed => Debounced /\ textTimer.left <= eventsSubscription.dt[1]

C4_Witness ==
    /\ lastAct = "TextDebounceFire"
    /\ trace[1].n >= 2
    /\ eventsSubscription.dt[1] >= 1
    /\ Count("onContentChanged") = 1

(***************************************************************************)
(* C5.  Whenever the debounceTime input changes while an instance is held, *)
(* the three listeners are detached and attached again, so the live        *)
(* subscription is always built with the current interval.                 *)
(***************************************************************************)
C5_IntervalChangeRebuildsListeners ==
    /\ (quillEditor # 0 /\ ~destroyed) => eventsSubscription = [live |-> TRUE, dt |-> debounceTime]
    /\ (lastAct = "DebounceTimeChange" /\ quillEditor # 0)
         => /\ Count("off:selection-change") = 1 /\ Count("on:selection-change") = 1
            /\ Count("off:text-change") = 1 /\ Count("on:text-change") = 1
            /\ Count("off:editor-change") = 1 /\ Count("on:editor-change") = 1

(***************************************************************************)
(* C6.  Destroying a binder that holds an instance detaches the three      *)
(* listeners with one off call each and drops what the debounce stages     *)
(* hold; from then on the subscription handle is null, the engine has no   *)
(* binder listener, no timer runs, and no operation attaches a listener,   *)
(* runs a handler or emits an output.                                      *)
(***************************************************************************)
C6_DestroyDetachesForGood ==
    /\ destroyed
         => /\ eventsSubscription = NoSubscription
            /\ quill.on = NoListeners
            /\ ~textTimer.armed /\ ~editorTimer.armed /\ burst = 0
            /\ ~HandlerRuns
            /\ \A i \in DOMAIN trace :
                   trace[i].k \in {"off:selection-change", "off:text-change",
                                   "off:editor-change", "cancel:text-change",
                                   "cancel:editor-change"}
            /\ lastAct # "Destroy" => trace = <<>>
    /\ (lastAct = "Destroy" /\ constructed > 0)
         => /\ Count("off:selection-change") = 1
            /\ Count("off:text-change") = 1
            /\ Count("off:editor-change") = 1
    /\ (lastAct = "Destroy" /\ constructed = 0) => trace = <<>>

C6_Witness ==
    /\ lastAct = "Destroy"
    /\ Has("cancel:text-change")
    /\ Has("cancel:editor-change")
    /\ Count("off:text-change") = 1

(***************************************************************************)
(* C11.  While an instance is held the host element carries the disabled   *)
(* attribute exactly when the last state requested through                 *)
(* setDisabledState (false if none was) is true; a setDisabledState(false) *)
(* that follows a setDisabledState(true), with the readOnly input not      *)
(* true, calls the engine's enable and leaves the engine editable.         *)
(***************************************************************************)
C11_HostDisabledFollowsLastRequest ==
    /\ quillEditor # 0 => host.disabled = disabled
    /\ (lastAct = "SetDisabledState" /\ quillEditor # 0 /\ Arg = Bool(FALSE)
          /\ trace[1].n = 1 /\ readOnly # "true")
         => Has("enable") /\ quill.enabled /\ ~host.disabled

C11_Witness ==
    /\ lastAct = "SetDisabledState"
    /\ quillEditor # 0
    /\ Arg = Bool(FALSE)
    /\ trace[1].n = 1
    /\ readOnly = "false"
    /\ quill.enabled
    /\ ~host.disabled

(***************************************************************************)
(* C12.  A setDisabledState(false) on a held instance does not call the    *)
(* engine's enable while the read-only option (component input, else       *)
(* service-level default) resolves to true, and it removes the host's      *)
(* disabled attribute whatever the read-only option is.                    *)
(***************************************************************************)
C12_EnableSkippedWhileReadOnly ==
    (lastAct = "SetDisabledState" /\ quillEditor # 0 /\ Arg = Bool(FALSE))
        => /\ ResolvedReadOnly => ~Has("enable")
           /\ ~host.disabled

(***************************************************************************)
(* C13.  validate() called while no instance is held returns null and      *)
(* reports no error, whatever required, minLength, maxLength and           *)
(* trimOnValidation are.                                                   *)
(***************************************************************************)
C13_NoInstanceNoError ==
    (lastAct = "Validate" /\ quillEditor = 0)
        => trace = <<E("validate"), Ev("return", Null, "")>>

C13_Witness ==
    /\ lastAct = "Validate"
    /\ quillEditor = 0
    /\ opts.required /\ opts.minLength = 3 /\ opts.maxLength = 5
    /\ trace[Len(trace)] = Ev("return", Null, "")

(***************************************************************************)
(* C14.  validate() on a held instance reports minLengthError, carrying    *)
(* the effective length and the minimum, exactly when a minimum is set and *)
(* 0 < length < minimum, and maxLengthError, carrying the length and the   *)
(* maximum, exactly when a maximum is set and length > maximum.  With      *)
(* minimum 3 and maximum 5, length 6 gives maxLengthError alone and        *)
(* length 4 gives no error (null).                                         *)
(***************************************************************************)
Validated == lastAct = "Validate" /\ quillEditor # 0
Given == textLength(quill)
Entry(k) == trace[CHOOSE i \in DOMAIN trace : trace[i].k = k]
Returned == trace[Len(trace)].v

C14_LengthErrors ==
    Validated =>
        /\ Has("minLengthError")
             <=> (opts.minLength # 0 /\ 0 < Given /\ Given < opts.minLength)
        /\ Has("minLengthError")
             => Entry("minLengthError").n = Given
                /\ Entry("minLengthError").v = Num(opts.minLength)
        /\ Has("maxLengthError") <=> (opts.maxLength # 0 /\ Given > opts.maxLength)
        /\ Has("maxLengthError")
             => Entry("maxLengthError").n = Given
                /\ Entry("maxLengthError").v = Num(opts.maxLength)
        /\ (opts.minLength = 3 /\ opts.maxLength = 5 /\ Given = 6)
             => Has("maxLengthError") /\ ~Has("minLengthError")
        /\ (opts.minLength = 3 /\ opts.maxLength = 5 /\ Given = 4) => Returned = Null
        /\ Returned = Null
             <=> ~(Has("minLengthError") \/ Has("maxLengthError") \/ Has("requiredError"))

C14_Witness ==
    /\ Validated
    /\ opts.minLength = 3 /\ opts.maxLength = 5
    /\ Given = 6
    /\ Has("maxLengthError") /\ ~Has("minLengthError")

(***************************************************************************)
(* C15.  validate() on a held instance reports requiredError exactly when  *)
(* required is set, the effective length is 0 and the engine's operation   *)
(* list is one insert of '' or of a newline; a document holding only an    *)
(* embed therefore passes required.                                        *)
(***************************************************************************)
OnlyEmbed == Len(quill.ops) = 2 /\ quill.ops[1].embed /\ quill.ops[2] = Ins("\n")

C15_RequiredError ==
    Validated =>
        /\ Has("requiredError")
             <=> (opts.required /\ Given = 0 /\ quill.ops \in {<<Ins("")>>, <<Ins("\n")>>})
        /\ Has("requiredError") => Entry("requiredError").v = Bool(TRUE)
        /\ OnlyEmbed => ~Has("requiredError")

C15_Witness ==
    /\ Validated
    /\ opts.required
    /\ OnlyEmbed
    /\ Given = 0
    /\ Returned = Null

(***************************************************************************)
(* C16.  The engine's text always ends with a newline; the length          *)
(* validate() works with is the length of the trimmed text when            *)
(* trimOnValidation is set, else the length of the text without that       *)
(* newline (0 for a text of one newline), and it is never negative.        *)
(***************************************************************************)
C16_EffectiveLength ==
    /\ EndsNL(getText(quill))
    /\ Validated =>
         /\ Entry("textLength").n >= 0
         /\ opts.trimOnValidation => Entry("textLength").n = Len(Trim(getText(quill)))
         /\ ~opts.trimOnValidation => Entry("textLength").n = Len(Chomp(getText(quill)))
         /\ (~opts.trimOnValidation /\ getText(quill) = "\n") => Entry("textLength").n = 0

C16_Witness ==
    /\ Validated
    /\ opts.trimOnValidation
    /\ getText(quill) = " abcd \n"
    /\ Entry("textLength").n = 4

(***************************************************************************)
(* C17.  Under format json, a non-empty string that JSON.parse rejects is  *)
(* written with one setContents of [{insert: string}], on the write at     *)
(* creation and on every later write, by the editable and by the read-only *)
(* binder; the engine's text is then that string (and the newline), and    *)
(* the write fails with no error.                                          *)
(***************************************************************************)
InvalidJson == {Str("{a"), Str("b")}

\* the operation has handed the value now in content to the engine
ContentWritten ==
    /\ quillEditor # 0
    /\ lastAct \in {"WriteValue", "QuillLoaded", "QuillView_ContentChange",
                     "QuillView_QuillLoaded"}
    /\ lastAct = "WriteValue" => Arg = content    \* (a null filtered out is not stored)

C17_InvalidJsonWrittenAsText ==
    (Format = "json" /\ ContentWritten /\ content \in InvalidJson)
        => /\ Len(Writes) = 1
           /\ Writes[1].k = "setContents"
           /\ Writes[1].v = Arr(<<Ins(content.s)>>)
           /\ getText(quill) = content.s \o "\n"
           /\ ~Has("TypeError")

C17_Witness ==
    /\ View
    /\ Format = "json"
    /\ lastAct = "QuillView_ContentChange"
    /\ quillEditor # 0
    /\ content = Str("{a")
    /\ getText(quill) = "{a\n"

(***************************************************************************)
(* C18.  Under format html the decoded value is defaultEmptyValue exactly  *)
(* when the engine's html is <p></p>, <div></div>, <p><br></p> or          *)
(* <div><br></div>, and is the html itself otherwise; when a user change   *)
(* empties the editor, the model receives defaultEmptyValue.               *)
(***************************************************************************)
EmptyForms == {"<p></p>", "<div></div>", "<p><br></p>", "<div><br></div>"}
HtmlForms == EmptyForms \cup {"", "<p>a</p>", "<p> </p>", "<br>"}

C18_EmptyHtmlDecodesToSentinel ==
    /\ \A h \in HtmlForms :
         HtmlModelValue(h) = IF h \in EmptyForms THEN opts.defaultEmptyValue ELSE Str(h)
    /\ (Editor /\ Format = "html" /\ lastAct = "EngineTextChange" /\ form.onChange
          /\ eventsSubscription.live)
         => /\ Has("onModelChange")
            /\ Entry("onModelChange").v = form.value
            /\ getText(quill) = "\n" => form.value = opts.defaultEmptyValue
            /\ getText(quill) = "a\n" => form.value = Str("<p>a</p>")

C18_Witness ==
    /\ Editor
    /\ Format = "html"
    /\ lastAct = "EngineTextChange"
    /\ opts.defaultEmptyValue = Str("")
    /\ getText(quill) = "\n"
    /\ form.value = Str("")
    /\ form.dirty

(***************************************************************************)
(* C19.  Under formats object and text: after a truthy value has been      *)
(* written (at creation or by writeValue), the decoded engine content is   *)
(* that value up to the newline the engine appends; writing the decoded    *)
(* content back leaves the engine as it is; a user change reaches the      *)
(* model as a Delta under object and as the text under text.               *)
(***************************************************************************)
\* b is a, or a with the newline appended to its last insert
UpToNewline(a, b) ==
    /\ Len(a) = Len(b)
    /\ \A i \in 1..Len(a) :
         \/ a[i] = b[i]
         \/ i = Len(a) /\ ~a[i].embed /\ b[i] = Ins(a[i].insert \o "\n")

C19_RoundTrip ==
    /\ (Editor /\ ContentWritten /\ Truthy(content) /\ Format = "object")
         => /\ valueGetter(quill).t = "delta"
            /\ UpToNewline(content.ops, valueGetter(quill).ops)
    /\ (Editor /\ ContentWritten /\ Truthy(content) /\ Format = "text")
         => valueGetter(quill) \in {content, Str(content.s \o "\n")}
    /\ (quillEditor # 0 /\ Format \in {"object", "text"})
         => DocOf(valueGetter(quill)) = quill.ops
    /\ (lastAct = "EngineTextChange" /\ Has("onModelChange") /\ Format = "object")
         => form.value = Delta(quill.ops)
    /\ (lastAct = "EngineTextChange" /\ Has("onModelChange") /\ Format = "text")
         => form.value = Str(TextOf(quill.ops))

C19_Witness ==
    /\ Format = "object"
    /\ lastAct = "WriteValue"
    /\ quillEditor # 0
    /\ content = Arr(<<Ins("a")>>)
    /\ valueGetter(quill) = Delta(<<Ins("a\n")>>)

(***************************************************************************)
(* C20.  The sanitize flag in effect is the sanitize input when it is true *)
(* or false, else the service-level sanitize when set, else false.  In     *)
(* both binders a value handed to the engine's html import goes through    *)
(* the sanitizer first exactly when the flag in effect is true, and no     *)
(* other format sanitizes.                                                 *)
(***************************************************************************)
SanitizeInEffect ==
    CASE opts.sanitize = "true" -> TRUE
      [] opts.sanitize = "false" -> FALSE
      [] OTHER -> config.sanitize = "true"

\* the operation has run the html import on the value now in content
HtmlImported ==
    /\ Format = "html"
    /\ ContentWritten
    /\ lastAct = "WriteValue" \/ Truthy(content)

Position(k) == CHOOSE i \in DOMAIN trace : trace[i].k = k

C20_SanitizeBeforeImport ==
    /\ HtmlImported =>
         /\ Has("sanitize") <=> SanitizeInEffect
         /\ Has("sanitize") =>
              /\ Entry("sanitize").v = content
              /\ Count("sanitize") = 1
              /\ Len(Writes) = 1
              /\ Position("sanitize") < Position(Writes[1].k)
    /\ Format # "html" => ~Has("sanitize")

C20_Witness ==
    /\ View
    /\ lastAct = "QuillView_ContentChange"
    /\ quillEditor # 0
    /\ opts.sanitize = "undefined" /\ config.sanitize = "true"
    /\ content = Str(UnsafeHtml)
    /\ Has("sanitize")
    /\ getText(quill) = "a\n"

(***************************************************************************)
(* C21.  The options an engine is constructed with are, for each of theme, *)
(* placeholder, readOnly, formats, debug, bounds and modules, the value    *)
(* the component supplies, else the service-level default, else the        *)
(* built-in default; a service-level readOnly or debug is the option       *)
(* whenever the component supplies none.                                   *)
(***************************************************************************)
Pick(own, service, builtin) ==
    IF own # "undefined" THEN own ELSE IF service # "undefined" THEN service ELSE builtin

Constructed == lastAct \in {"QuillLoaded", "QuillView_QuillLoaded"}
Supplied(name) == name \in opts.options.bound

C21_OptionPrecedence ==
    Constructed =>
        /\ quill.options.theme = Pick(opts.options.theme, config.theme, "snow")
        /\ quill.options.formats = Pick(opts.options.formats, config.formats, "undefined")
        /\ quill.options.modules = Pick(opts.options.modules, config.modules, "undefined")
        /\ quill.options.debug
             = Pick(IF Supplied("debug") THEN opts.options.debug ELSE "undefined",
                    config.debug, "false")
        /\ Editor =>
             /\ quill.options.placeholder
                  = Pick(opts.options.placeholder, config.placeholder, "Insert text here ...")
             /\ quill.options.bounds
                  = Pick(IF opts.options.bounds = "self" THEN "editorElem"
                         ELSE opts.options.bounds, config.bounds, "document.body")
             /\ quill.options.readOnly
                  = (Pick(IF Supplied("readOnly") THEN readOnly ELSE "undefined",
                          config.readOnly, "false") = "true")

(***************************************************************************)
(* C22.  In the read-only binder every change of the content input made    *)
(* while an instance is held is written to the engine, and the value held  *)
(* when the instance is created is written then: a view that holds an      *)
(* instance shows the document of its latest content (the empty document   *)
(* for an empty content).                                                  *)
(***************************************************************************)
\* the document that corresponds to the content value v under the format
ViewDoc(v) == IF Truthy(v) THEN DocOf(v) ELSE EmptyOps

C22_ViewShowsLatestContent ==
    (View /\ quillEditor # 0)
        => /\ quill.ops = ViewDoc(content)
           /\ lastAct = "QuillView_ContentChange" => Len(Writes) = 1

(***************************************************************************)
(* C23.  The read-only binder constructs its engine with readOnly true and *)
(* with modules.toolbar false, whatever modules the component or the       *)
(* service configure; its engine is never editable and the binder never    *)
(* registers a listener on it.                                             *)
(***************************************************************************)
C23_ViewReadOnlyNoToolbarNoListeners ==
    View =>
        /\ quillEditor # 0
             => /\ quill.options.readOnly
                /\ quill.options.toolbar = "false"
                /\ ~quill.enabled
        /\ quill.on = NoListeners
        /\ ~eventsSubscription.live
        /\ \A i \in DOMAIN trace :
             trace[i].k \notin {"on:selection-change", "on:text-change", "on:editor-change"}

C23_Witness ==
    /\ View
    /\ lastAct = "QuillView_ContentChange"
    /\ quillEditor # 0
    /\ opts.options.modules = "toolbar:italic"
    /\ quill.options.modules = "toolbar:italic"
    /\ quill.options.toolbar = "false"
    /\ Len(Writes) = 1

(***************************************************************************)
(* C24.  Html-only binder: once its inputs have been delivered, after any  *)
(* changes of content and sanitize the html bound to the element is the    *)
(* latest content, marked trusted exactly when the sanitize flag in effect *)
(* (input if true or false, else service-level, else false) is false.      *)
(***************************************************************************)
C24_InnerHtmlFollowsInputs ==
    (ViewHTML /\ rendered)
        => /\ host.innerHTML.html = content.s
           /\ host.innerHTML.trusted = ~SanitizeInEffect

C24_Witness ==
    /\ ViewHTML
    /\ lastAct = "QuillViewHTML_SanitizeChange"
    /\ rendered
    /\ opts.sanitize = "undefined" /\ config.sanitize = "true"
    /\ content = Str(UnsafeHtml)
    /\ host.innerHTML = [html |-> UnsafeHtml, trusted |-> FALSE]

(***************************************************************************)
(* C25.  A selection-change marks the control touched exactly when the new *)
(* range is null, a touched callback is registered and the source is       *)
(* 'user' or trackChanges (input, else service-level) is 'all'; this does  *)
(* not depend on a blur, focus or selection listener being attached, and   *)
(* nothing else invokes the touched callback.                              *)
(***************************************************************************)
SelectionHandled == Has("selectionChangeHandler")
Selection == Entry("selectionChangeHandler")
ResolvedTrackChanges == Pick(opts.trackChanges, config.trackChanges, "undefined")
TouchedCondition ==
    /\ Selection.v = Null
    /\ form.onTouched
    /\ (Selection.src = "user" \/ ResolvedTrackChanges = "all")

C25_TouchedOnNullRange ==
    /\ SelectionHandled
         => /\ Count("onModelTouched") = IF TouchedCondition THEN 1 ELSE 0
            /\ TouchedCondition => form.touched
    /\ Has("onModelTouched") => SelectionHandled
    /\ form.touched => form.onTouched

C25_Witness ==
    /\ lastAct = "EngineSelectionChange"
    /\ opts.observed = NoOutputs
    /\ opts.trackChanges = "undefined" /\ config.trackChanges = "all"
    /\ SelectionHandled
    /\ Selection.src = "api"
    /\ Has("onModelTouched")
    /\ form.touched

(***************************************************************************)
(* C26.  For a selection-change that reaches the handler, blur goes to its *)
(* listener exactly when the new range is null, focus to its listener      *)
(* exactly when the new range is non-null and the old range is null, never *)
(* both, and selection-changed goes to its listener with the range, the    *)
(* old range and the source; with no blur, focus or selection listener and *)
(* no touched condition nothing is emitted or invoked.                     *)
(***************************************************************************)
SelectionOutputs == {"onBlur", "onFocus", "onSelectionChanged"}
One(c) == IF c THEN 1 ELSE 0

C26_BlurFocusSelection ==
    SelectionHandled =>
        /\ Count("onBlur") = One(Observed("onBlur") /\ Selection.v = Null)
        /\ Count("onFocus")
             = One(Observed("onFocus") /\ Selection.v # Null /\ Selection.n = 0)
        /\ ~(Has("onBlur") /\ Has("onFocus"))
        /\ Count("onSelectionChanged") = One(Observed("onSelectionChanged"))
        /\ Has("onSelectionChanged")
             => Entry("onSelectionChanged") = [Selection EXCEPT !.k = "onSelectionChanged"]
        /\ (SelectionOutputs \cap opts.observed = {} /\ ~TouchedCondition)
             => \A i \in DOMAIN trace :
                  trace[i].k \in {"selectionChangeHandler", "editorChangeHandler",
                                  "onEditorChanged:selection-change"}

C26_Witness ==
    /\ lastAct = "EngineSelectionChange"
    /\ opts.observed = EventOutputs
    /\ SelectionHandled
    /\ Selection.src = "api" /\ ResolvedTrackChanges = "undefined"
    /\ Selection.v # Null /\ Selection.n = 0
    /\ Has("onFocus") /\ ~Has("onBlur")
    /\ Entry("onSelectionChanged").v = Str("range")

(***************************************************************************)
(* C27.  A text-change that reaches the content-change handler while a     *)
(* content-changed listener is attached is emitted to it once, with the    *)
(* engine's content and the source, whatever the source and trackChanges   *)
(* are: also when the model-change gate fails.                             *)
(***************************************************************************)
TextHandled == Has("textChangeHandler")

C27_ContentChangedUngated ==
    TextHandled =>
        /\ Count("onContentChanged") = One(Observed("onContentChanged"))
        /\ Has("onContentChanged")
             => /\ Entry("onContentChanged").v = getContents(quill)
                /\ Entry("onContentChanged").src = Entry("textChangeHandler").src

C27_Witness ==
    /\ lastAct = "EngineTextChange"
    /\ form.onChange
    /\ TextHandled
    /\ Entry("textChangeHandler").src = "api" /\ ResolvedTrackChanges = "undefined"
    /\ Has("onContentChanged")
    /\ ~Has("onModelChange")

(***************************************************************************)
(* C28.  Undebounced, every editor-change event of the engine (a content   *)
(* change, silent ones included, or a selection change) is re-emitted as   *)
(* editor-changed exactly when an editor-changed listener is attached,     *)
(* tagged with its kind and carrying the matching payload and the source;  *)
(* the source and trackChanges never suppress it.                          *)
(***************************************************************************)
EngineEvent ==
    /\ lastAct \in {"EngineTextChange", "EngineSelectionChange"}
    /\ eventsSubscription.live
EventKind == IF lastAct = "EngineTextChange" THEN "text-change" ELSE "selection-change"
OtherKind == IF lastAct = "EngineTextChange" THEN "selection-change" ELSE "text-change"
EditorChanged(kind) == "onEditorChanged:" \o kind

C28_EditorChangedForEveryEvent ==
    /\ EngineEvent
         => /\ Count("editorChangeHandler") = 1
            /\ Entry("editorChangeHandler").v = Str(EventKind)
            /\ Count(EditorChanged(EventKind)) = One(Observed("onEditorChanged"))
            /\ Count(EditorChanged(OtherKind)) = 0
            /\ Has(EditorChanged(EventKind))
                 => /\ Entry(EditorChanged(EventKind)).src = Entry("editorChangeHandler").src
                    /\ Entry(EditorChanged(EventKind)).v
                         = IF lastAct = "EngineTextChange" THEN getContents(quill)
                           ELSE RangeValue(quill.range)
    /\ EditorChangedCount > 0 => Observed("onEditorChanged")

C28_Witness ==
    /\ lastAct = "EngineTextChange"
    /\ eventsSubscription.live
    /\ ResolvedTrackChanges = "undefined"
    /\ ~TextHandled
    /\ Has(EditorChanged("text-change"))
    /\ Entry(EditorChanged("text-change")).src = "silent"

(***************************************************************************)
(* C29.  onEditorCreated is emitted at most once per binder, from the      *)
(* scheduled frame callback only: after the instance exists, the value     *)
(* held at that moment has been written to it and, in the editable binder, *)
(* the three listeners are attached.  It carries the binder's own          *)
(* instance and is not emitted once the binder is destroyed.               *)
(***************************************************************************)
Created == Has("onEditorCreated")

CreatedInOrder ==
    Created =>
        /\ lastAct \in {"CreatedCallback", "QuillView_CreatedCallback"}
        /\ Count("onEditorCreated") = 1
        /\ Observed("onEditorCreated")
        /\ ~destroyed
        /\ quillEditor # 0
        /\ Entry("onEditorCreated").n = quillEditor
        /\ quill.id = quillEditor
        /\ Truthy(content) => quill.ops = DocOf(content)
        /\ Editor => /\ eventsSubscription.live
                     /\ quill.on.text > 0 /\ quill.on.selection > 0 /\ quill.on.editor > 0

C29_CreatedOnceAfterSetup ==
    /\ []CreatedInOrder
    /\ [][Created' => (raf /\ quillEditor # 0 /\ quillEditor' = quillEditor)]_vars
    /\ [](Created => [](~raf))

C29_Witness ==
    /\ Editor
    /\ lastAct = "CreatedCallback"
    /\ Created
    /\ content = Str("a")
    /\ getText(quill) = "a\n"
    /\ eventsSubscription.live

(***************************************************************************)
(* C30.  With filterNull set, writeValue(null) changes neither the cached  *)
(* value nor the engine, the host or the form state, whether or not an     *)
(* instance exists; every other value, undefined and '' included, and null *)
(* itself without filterNull, is cached and, with an instance, written.    *)
(***************************************************************************)
NullFiltered == lastAct = "WriteValue" /\ opts.filterNull /\ Arg = Null
ValueTaken == lastAct = "WriteValue" /\ ~(opts.filterNull /\ Arg = Null)

C30_FilterNullIgnoresNull ==
    /\ [][NullFiltered' => /\ content' = content
                           /\ quill' = quill
                           /\ host' = host
                           /\ form' = form
                           /\ Len(trace') = 1]_vars
    /\ [](ValueTaken => /\ content = Arg
                        /\ (quillEditor # 0 /\ ~opts.compareValues) => Len(Writes) = 1)

C30_Witness ==
    /\ NullFiltered
    /\ quillEditor # 0
    /\ content = Str("a")
    /\ getText(quill) = "a\n"
    /\ Writes = <<>>

(***************************************************************************)
(* C31.  When the instance is created, a held value is written once with   *)
(* source 'silent' while no listener is attached: no handler runs, the     *)
(* model-change callback is not invoked, content-changed and               *)
(* editor-changed are not emitted and the undo history is empty; the       *)
(* disabled state is applied after that write and before the listeners     *)
(* are attached.                                                           *)
(***************************************************************************)
DisabledRecords == {"enable", "disable", "setAttribute:disabled", "removeAttribute:disabled"}
AttachRecords == {"on:selection-change", "on:text-change", "on:editor-change"}
FlushRecords == {"setText", "setContents", "history.clear"}
Before(early, late) ==
    \A i, j \in DOMAIN trace :
        (trace[i].k \in early /\ trace[j].k \in late) => i < j

C31_SilentFlushBeforeListeners ==
    lastAct = "QuillLoaded" =>
        /\ ~HandlerRuns
        /\ ~Has("onModelChange")
        /\ ~Has("onContentChanged")
        /\ EditorChangedCount = 0
        /\ quill.history = 0
        /\ Len(Writes) = One(Truthy(content))
        /\ Truthy(content)
             => /\ Writes[1].src = "silent"
                /\ quill.ops = DocOf(content)
                /\ Count("history.clear") = 1
                /\ Before({"setText", "setContents"}, {"history.clear"})
        /\ \E i \in DOMAIN trace : trace[i].k \in DisabledRecords
        /\ Before(FlushRecords, DisabledRecords)
        /\ Before(DisabledRecords, AttachRecords)
        /\ \A k \in AttachRecords : Count(k) = 1
        /\ quill.enabled = (~disabled /\ readOnly # "true")

C31_Witness ==
    /\ lastAct = "QuillLoaded"
    /\ form.onChange
    /\ disabled
    /\ Format = "html"
    /\ Truthy(content)
    /\ Len(Writes) = 1
    /\ ~quill.enabled
    /\ eventsSubscription.live

(***************************************************************************)
(* C32.  Handlers run in the order in which the engine raised the events,  *)
(* with or without a debounce interval: the selection-change handler never *)
(* runs while a text-change the engine raised earlier is still waiting to  *)
(* be delivered to the content-change handler.                             *)
(***************************************************************************)
TextChangeWaiting == textTimer.armed

C32_NoReorderAcrossStreams ==
    (lastAct = "EngineSelectionChange" /\ SelectionHandled) => ~TextChangeWaiting

(***************************************************************************)
(* C33.  While an instance exists and the binder is not destroyed, the     *)
(* engine holds exactly one registration of the binder for each of         *)
(* selection-change, text-change and editor-change; a rebuild on an        *)
(* interval change detaches the previous set before it attaches the new.   *)
(***************************************************************************)
OneSet == [selection |-> 1, text |-> 1, editor |-> 1]
DetachRecords == {"off:selection-change", "off:text-change", "off:editor-change"}
Rebuilt == lastAct = "DebounceTimeChange" /\ Has("on:text-change")

C33_OneRegistrationPerEvent ==
    /\ (quillEditor # 0 /\ ~destroyed)
         => /\ quill.on = OneSet
            /\ eventsSubscription.live
    /\ quillEditor = 0 => quill.on = NoListeners
    /\ Rebuilt
         => /\ \A k \in DetachRecords \cup AttachRecords : Count(k) = 1
            /\ Before(DetachRecords, AttachRecords)

C33_Witness ==
    /\ Rebuilt
    /\ Has("cancel:text-change")
    /\ quill.on = OneSet
    /\ eventsSubscription.dt = <<2>>

(***************************************************************************)
(* C34.  A writeValue that reaches a held instance: with compareValues     *)
(* set and the encoded value serializing to the same JSON text as the      *)
(* engine's contents, nothing is written, no handler runs and the engine   *)
(* is unchanged, and the value is cached all the same; in every other      *)
(* case, and always without compareValues, exactly one write is made.      *)
(***************************************************************************)
WrittenToInstance == lastAct = "WriteValue" /\ quillEditor # 0 /\ ~(opts.filterNull /\ Arg = Null)
SkippedWrite ==
    /\ Writes = <<>>
    /\ ~HandlerRuns
    /\ ~Has("onModelChange")
    /\ EditorChangedCount = 0

DestroyedWhileAwaiting == destroyed /\ constructed = 0
SetupRecords == {"new Quill", "setText", "setContents", "onEditorCreated"} \cup AttachRecords

C35_NothingAfterEarlyDestroy ==
    /\ [](DestroyedWhileAwaiting
            => /\ quillEditor = 0
               /\ quill.id = 0
               /\ quill.on = NoListeners
               /\ ~eventsSubscription.live
               /\ ~raf
               /\ quillSubscription # "pending"
               /\ \A i \in DOMAIN trace : trace[i].k \notin SetupRecords)
    /\ [][DestroyedWhileAwaiting => (constructed' = 0 /\ quill' = quill)]_vars

C35_Witness ==
    /\ View
    /\ lastAct = "QuillView_Destroy"
    /\ DestroyedWhileAwaiting
    /\ rendered /\ ~opts.server
    /\ quillSubscription = "null"
    /\ content = Str("a")

(***************************************************************************)
(* C36.  A pending-task token a binder holds is eventually released, on    *)
(* every path: on a server target, after the instance is created, and      *)
(* when the binder is destroyed before the engine loads or before the      *)
(* deferred creation callback runs.                                        *)
(***************************************************************************)
C36_TaskEventuallyReleased == (task = "held") ~> (task = "released")

(***************************************************************************)
(* C37.  When the model-change callback writes the value it receives back  *)
(* through writeValue, the chain started by an external write to a held    *)
(* instance ends, whatever trackChanges and compareValues are: no round of *)
(* the write-back invokes the callback again with the value, the engine    *)
(* and the binder exactly as the round before left them (each round being  *)
(* determined by these, such a round would repeat for ever).               *)
(***************************************************************************)
WrittenBack == lastAct = "ModelChangeWritesBack" /\ Has("onModelChange")
Received == Entry("onModelChange").v

C37_WriteBackChainEnds ==
    [][~(/\ WrittenBack
         /\ WrittenBack'
         /\ Received' = Received
         /\ <<quill, form, host, content, eventsSubscription, textTimer, editorTimer>>'
              = <<quill, form, host, content, eventsSubscription, textTimer, editorTimer>>)]_vars

(***************************************************************************)
(* C38.  A styles value delivered before the editor element exists is not  *)
(* applied to the missing element: its subscriber makes no renderer call   *)
(* that fails on it, and the value waits for the creation of the instance. *)
(***************************************************************************)
BeforeElement == constructed = 0

C38_NoMutationOnMissingElement ==
    (lastAct = "StylesChange" /\ BeforeElement) => ~Has("TypeError")

(***************************************************************************)
(* C39.  While an instance is held, after any changes of the styles input  *)
(* the style keys set on the editor element are exactly the keys of the    *)
(* latest value (none for null), and after any changes of the classes      *)
(* input the classes added are exactly those of the latest list: the       *)
(* previous value is removed, then the current one added, so a class or    *)
(* key that is in both stays applied.                                      *)
(***************************************************************************)
KeysOf(st) == IF st = NoStyles THEN {} ELSE st
ClassesOf(c) == IF Present(c) THEN ClassSet(c) ELSE {}

C39_ElementFollowsLatestValue ==
    /\ [](quillEditor # 0
            => /\ host.styles = KeysOf(styles)
               /\ host.classes = ClassesOf(classes)
               /\ KeysOf(previousStyles) = KeysOf(styles)
               /\ ClassesOf(previousClasses) = ClassesOf(classes))
    /\ [][(quillEditor # 0 /\ lastAct' \in {"StylesChange", "ClassesChange"})
            => /\ KeysOf(styles) \cap KeysOf(styles') \subseteq host.styles'
               /\ ClassesOf(classes) \cap ClassesOf(classes') \subseteq host.classes'
               /\ ~Has("TypeError")']_vars

C39_Witness ==
    /\ quillEditor # 0
    /\ lastAct = "ClassesChange"
    /\ classes = " b  c "
    /\ host.classes = {"b", "c"}
    /\ host.styles = {"color"}
    /\ previousStyles = {"color"}

====
